---- MODULE Spec2Model ----
(***************************************************************************)
(* Model of the optimize-clinical-doc edge function                        *)
(* (supabase/functions/optimize-clinical-doc/index.ts): the Deno.serve     *)
(* request handler with its staged generation calls, and the pure helpers  *)
(* it uses.  A text is a sequence of one-character strings.                *)
(***************************************************************************)
EXTENDS Integers, Sequences, FiniteSets, TLC

\* ------------------------------------------------------------------------
\* Bounds of the model
\* ------------------------------------------------------------------------

\* Longest gap list a generated response carries.
MaxGaps == 1

\* Longest text chunkText is applied to.
MaxTextLen == 7

\* Longest chunk list scoreBM25 is applied to.
MaxChunks == 3

\* Longest text stripMarkdown is applied to on its own.
MaxMarkLen == 5

\* Most paragraphs of the one-word-paragraph texts chunkText is applied to.
MaxParas == 3

\* Most items of the explanations sanitizeMapping is applied to on its own.
MaxItems == 3

\* Most runs of handleGenerate on the input page.
MaxRuns == 2

\* ------------------------------------------------------------------------
\* Constants of the program
\* ------------------------------------------------------------------------

MAX_NOTES_CHARS == 15000
MAX_GUIDELINE_CHARS == 80000

\* ------------------------------------------------------------------------
\* Text helpers (JavaScript string semantics on character sequences)
\* ------------------------------------------------------------------------

\* The bullet character U+2022, one character of a text.
Bullet == "U+2022"

\* The backtick character U+0060, one character of a text.
Backtick == "U+0060"

\* The characters JavaScript's \s matches, among those the model uses.
WhiteSpace == {" ", "\n", "\t", "\r"}

\* The first index j >= i of s whose character is not in S (Len(s)+1 if none).
RECURSIVE SkipWhile(_, _, _)
SkipWhile(s, i, S) ==
  IF i > Len(s) \/ s[i] \notin S THEN i ELSE SkipWhile(s, i + 1, S)

\* The last index j <= i of s whose character is not in S (0 if none).
RECURSIVE SkipBack(_, _, _)
SkipBack(s, i, S) ==
  IF i < 1 \/ s[i] \notin S THEN i ELSE SkipBack(s, i - 1, S)

\* String.prototype.slice(0, n)
slice(s, n) == SubSeq(s, 1, IF n < Len(s) THEN n ELSE Len(s))

\* String.prototype.trim
trim(s) ==
  LET a == SkipWhile(s, 1, WhiteSpace)
      b == SkipBack(s, Len(s), WhiteSpace)
  IN  IF a > b THEN <<>> ELSE SubSeq(s, a, b)

\* Whether the characters of pat occur in s from index i on.
MatchAt(s, i, pat) ==
  /\ i + Len(pat) - 1 <= Len(s)
  /\ \A k \in 1..Len(pat) : s[i + k - 1] = pat[k]

\* String.prototype.includes
includes(s, pat) == \E i \in 1..(Len(s) + 1) : MatchAt(s, i, pat)

\* s.replace(/###?\s*/g, "")
RECURSIVE ReplaceHeadings(_, _)
ReplaceHeadings(s, i) ==
  IF i > Len(s) THEN <<>>
  ELSE IF MatchAt(s, i, <<"#", "#">>)
       THEN LET j == IF MatchAt(s, i + 2, <<"#">>) THEN i + 3 ELSE i + 2
            IN  ReplaceHeadings(s, SkipWhile(s, j, WhiteSpace))
       ELSE <<s[i]>> \o ReplaceHeadings(s, i + 1)

\* s.replace(/pat/g, "") for a literal pat
RECURSIVE RemoveAll(_, _, _)
RemoveAll(s, i, pat) ==
  IF i > Len(s) THEN <<>>
  ELSE IF MatchAt(s, i, pat) THEN RemoveAll(s, i + Len(pat), pat)
       ELSE <<s[i]>> \o RemoveAll(s, i + 1, pat)

\* s.replace(/^[-\u2022]\s*/gm, ""); Bullet stands for the character U+2022
RECURSIVE ReplaceBullets(_, _)
ReplaceBullets(s, i) ==
  IF i > Len(s) THEN <<>>
  ELSE IF /\ (i = 1 \/ s[i - 1] \in {"\n", "\r"})
          /\ s[i] \in {"-", Bullet}
       THEN ReplaceBullets(s, SkipWhile(s, i + 1, WhiteSpace))
       ELSE <<s[i]>> \o ReplaceBullets(s, i + 1)

\* stripMarkdown without the removal of backticks.
stripMarkdownKeepsBackticks(text) ==
  LET t1 == ReplaceHeadings(text, 1)
      t2 == RemoveAll(t1, 1, <<"*", "*">>)
      t3 == RemoveAll(t2, 1, <<"*">>)
  IN  ReplaceBullets(t3, 1)

stripMarkdown(text) ==
  LET t1 == ReplaceHeadings(text, 1)
      t2 == RemoveAll(t1, 1, <<"*", "*">>)
      t3 == RemoveAll(t2, 1, <<"*">>)
      t4 == RemoveAll(t3, 1, <<Backtick>>)
  IN  ReplaceBullets(t4, 1)

\* s.replace(/\n+/g, " ")
RECURSIVE ReplaceNewlines(_, _)
ReplaceNewlines(s, i) ==
  IF i > Len(s) THEN <<>>
  ELSE IF s[i] = "\n" THEN <<" ">> \o ReplaceNewlines(s, SkipWhile(s, i, {"\n"}))
       ELSE <<s[i]>> \o ReplaceNewlines(s, i + 1)

\* s.replace(/\s{2,}/g, " ")
RECURSIVE CollapseSpaces(_, _)
CollapseSpaces(s, i) ==
  IF i > Len(s) THEN <<>>
  ELSE LET j == SkipWhile(s, i, WhiteSpace)
       IN  IF j - i >= 2 THEN <<" ">> \o CollapseSpaces(s, j)
           ELSE <<s[i]>> \o CollapseSpaces(s, i + 1)

sanitizeHPI(hpi) ==
  trim(CollapseSpaces(ReplaceNewlines(stripMarkdown(hpi), 1), 1))

\* The separator line sanitizeMapping writes: "\n---\n"
SepLine == <<"\n", "-", "-", "-", "\n">>

\* s.replace(/\n*-{3,}\n*/g, "\n---\n")
RECURSIVE NormalizeSeparators(_, _)
NormalizeSeparators(s, i) ==
  IF i > Len(s) THEN <<>>
  ELSE LET j == SkipWhile(s, i, {"\n"})
           k == SkipWhile(s, j, {"-"})
       IN  IF k - j >= 3
           THEN SepLine \o NormalizeSeparators(s, SkipWhile(s, k, {"\n"}))
           ELSE <<s[i]>> \o NormalizeSeparators(s, i + 1)

\* s.replace(/\n(?=Clause:)/g, "\n---\n")
RECURSIVE SeparateClauses(_, _)
SeparateClauses(s, i) ==
  IF i > Len(s) THEN <<>>
  ELSE IF s[i] = "\n" /\ MatchAt(s, i + 1, <<"C", "l", "a", "u", "s", "e", ":">>)
       THEN SepLine \o SeparateClauses(s, i + 1)
       ELSE <<s[i]>> \o SeparateClauses(s, i + 1)

\* s.split(sep) for a non-empty literal sep, from index i with the piece
\* collected so far in acc.
RECURSIVE SplitFrom(_, _, _, _)
SplitFrom(s, i, sep, acc) ==
  IF i > Len(s) THEN <<acc>>
  ELSE IF MatchAt(s, i, sep) THEN <<acc>> \o SplitFrom(s, i + Len(sep), sep, <<>>)
       ELSE SplitFrom(s, i + 1, sep, Append(acc, s[i]))

split(s, sep) == SplitFrom(s, 1, sep, <<>>)

\* items.join(sep)
RECURSIVE join(_, _)
join(items, sep) ==
  IF Len(items) = 0 THEN <<>>
  ELSE IF Len(items) = 1 THEN items[1]
       ELSE items[1] \o sep \o join(Tail(items), sep)

sanitizeMapping(mapping) ==
  LET t0    == stripMarkdown(mapping)
      t1    == NormalizeSeparators(t0, 1)
      t2    == IF ~includes(t1, <<"-", "-", "-">>) THEN SeparateClauses(t1, 1) ELSE t1
      parts == split(t2, SepLine)
      trimmed == [n \in 1..Len(parts) |-> trim(parts[n])]
      NonEmpty(p) == p # <<>>
  IN  join(SelectSeq(trimmed, NonEmpty), SepLine)

\* ------------------------------------------------------------------------
\* sanitizeCriteria and the gap-entry filter
\* ------------------------------------------------------------------------

\* A gap entry is a record of its four fields.  A text field that is absent
\* reads as the empty text: the code only uses (c.f || ""), a truth test
\* or a set lookup on these fields, which do not tell the two apart.
validStatuses == {"Not documented", "Insufficient detail", "Unable to determine"}
\* ValidEntry without the status test.
ValidEntryClauseOnly(c) == c.mcg_clause # <<>>

\* The test of  missingCriteria.filter(c => c.mcg_clause && validStatuses.has(c.status))
ValidEntry(c) == c.mcg_clause # <<>> /\ c.status \in validStatuses

filterCriteria(list) == SelectSeq(list, ValidEntry)

sanitizeCriteria(criteria) ==
  [n \in 1..Len(criteria) |->
     [criteria[n] EXCEPT
        !.mcg_clause = trim(stripMarkdown(@)),
        !.evidence_in_notes = trim(stripMarkdown(@)),
        !.required_documentation = trim(stripMarkdown(@))]]

\* ------------------------------------------------------------------------
\* Responses of the handler
\* ------------------------------------------------------------------------

NoResponse ==
  [kind |-> "none", status |-> 0, error |-> "",
   revised_hpi |-> <<>>, missing_criteria |-> <<>>, mapping_explanation |-> <<>>]

errorResponse(msg, status) ==
  [NoResponse EXCEPT !.kind = "error", !.status = status, !.error = msg]

\* new Response(JSON.stringify({revised_hpi, missing_criteria, mapping_explanation}))
SuccessResponse(hpi, criteria, mapping) ==
  [kind |-> "success", status |-> 200, error |-> "",
   revised_hpi |-> hpi, missing_criteria |-> criteria, mapping_explanation |-> mapping]

\* The reply to an OPTIONS request.
PreflightResponse == [NoResponse EXCEPT !.kind = "preflight", !.status = 200]

RateLimitMsg == "Rate limit exceeded, please try again later."
PaymentMsg   == "Payment required. Please add credits."
TimeoutMsg   == "AI processing timed out. Please try again with shorter documents."
FactsMsg     == "Failed to extract structured facts from notes. Please try again."
IncompleteMsg == "Incomplete AI output. Please try again."
ApiKeyMsg    == "AI API key is not configured. Please contact support."
ErRequiredMsg  == "ER Notes (text or PDF) are required."
HpRequiredMsg  == "Inpatient H&P PDF is required."
McgRequiredMsg == "MCG Guideline PDF is required."
\* Messages of errors raised by the runtime, not by the handler's own code.
NetworkMsg == "fetch failed"
\* The messages of the SyntaxError of a body that is not JSON: an empty
\* body, a text.
BodyMsgs   == { "Unexpected end of JSON input",
                "Unexpected token 'o', \"not json\" is not valid JSON" }
\* The message of atob's InvalidCharacterError, for a payload with a
\* character outside the alphabet ("undecodable") and for one whose length
\* no encoding has ("misencoded").
DecodeMsg(o) ==
  IF o = "undecodable" THEN "Invalid character"
  ELSE "The string to be decoded is not correctly encoded."
\* The message of the TypeError of destructuring a body that is null.
NullBodyMsg == "Cannot destructure property 'erText' of 'body' as it is null."
\* The message of the TypeError of a body whose stream fails while it is
\* read.
StreamMsg  == "terminated"
UnexpectedMsg == "An unexpected error occurred."

GatewayMsg(status) == "AI Gateway returned " \o ToString(status)
FactsGatewayMsg(status) == GatewayMsg(status) \o " during facts extraction"
ExtractMsg(label) ==
  "Unable to extract text from " \o label
    \o " PDF. The file may be corrupted, password-protected, or image-only."

\* Response.ok
Ok(status) == status >= 200 /\ status <= 299

\* handleAIStatus: the statuses it turns into a response of their own.
Handled(status) == status \in {429, 402}

handleAIStatus(status) ==
  IF status = 429 THEN errorResponse(RateLimitMsg, 429)
  ELSE IF status = 402 THEN errorResponse(PaymentMsg, 402)
  ELSE NoResponse
\* CatchError without the AbortError case.
CatchErrorGeneric(name, message) ==
  errorResponse(IF message = "" THEN UnexpectedMsg ELSE message, 500)

\* The catch block of the handler, for an error of the given name and message.
CatchError(name, message) ==
  IF name = "AbortError" THEN errorResponse(TimeoutMsg, 504)
  ELSE errorResponse(IF message = "" THEN UnexpectedMsg ELSE message, 500)

\* ------------------------------------------------------------------------
\* Generated texts and extractJSON
\* ------------------------------------------------------------------------

\* A JSON value, as far as the handler reads it: whether it is null, an
\* object or an array, and the fields the handler looks at.  patient is the
\* truth value of the field; a text field that is absent reads as the empty
\* text (the handler only truth-tests it); missing_criteria carries what
\* Array.isArray says of it.
NotArray == [isArray |-> FALSE, items |-> <<>>]
ArrayOf(list) == [isArray |-> TRUE, items |-> list]

JsonNull ==
  [kind |-> "null", patient |-> FALSE, revised_hpi |-> <<>>,
   missing_criteria |-> NotArray, mapping_explanation |-> <<>>]
JsonArray  == [JsonNull EXCEPT !.kind = "array"]
JsonObject == [JsonNull EXCEPT !.kind = "object"]

\* JavaScript truthiness of a parsed value (extractJSON gives null,
\* an object or an array here).
Truthy(v) == v.kind # "null"

\* A generated text, as far as extractJSON reads it: what the code-block
\* pattern and the brace pattern match in it, and what JSON.parse makes of
\* the match.
NoMatch     == [found |-> FALSE, parses |-> FALSE, value |-> JsonNull]
Unparsed    == [found |-> TRUE, parses |-> FALSE, value |-> JsonNull]
Parsed(v)   == [found |-> TRUE, parses |-> TRUE, value |-> v]

Prose        == [block |-> NoMatch, object |-> NoMatch]
BrokenObject == [block |-> NoMatch, object |-> Unparsed]
RawObject(v) == [block |-> NoMatch, object |-> Parsed(v)]
Fenced(v)    ==
  [block |-> Parsed(v), object |-> IF v.kind = "object" THEN Parsed(v) ELSE NoMatch]
\* A code block that is not JSON, followed by an object outside it.
BrokenFenceThenObject(v) == [block |-> Unparsed, object |-> Parsed(v)]

extractJSON(text) ==
  IF text.block.found /\ text.block.parses THEN text.block.value
  ELSE IF text.object.found /\ text.object.parses THEN text.object.value
  ELSE JsonNull

\* extractAIText on a body whose message content is the given text (the
\* empty text when the body has no content):  content?.trim() || ""
extractAIText(content) == trim(content)

\* ------------------------------------------------------------------------
\* The inputs the model draws from
\* ------------------------------------------------------------------------

HttpStatuses == {200, 402, 429, 500}

Entry(clause, status) ==
  [mcg_clause |-> clause, status |-> status,
   evidence_in_notes |-> <<"*", "e">>, required_documentation |-> <<Backtick, "d", "*">>]

GapEntries ==
  { Entry(<<"a">>, "Not documented"),
    Entry(<<"*", "a", Backtick>>, "Insufficient detail"),
    Entry(<<" ">>, "Unable to determine"),
    Entry(<<>>, "Not documented"),
    Entry(<<"a">>, "Met") }

GapLists == UNION { [1..n -> GapEntries] : n \in 0..MaxGaps }

FactsTexts ==
  { Prose, BrokenObject,
    RawObject([JsonObject EXCEPT !.patient = TRUE]),
    Fenced([JsonObject EXCEPT !.patient = TRUE]),
    BrokenFenceThenObject([JsonObject EXCEPT !.patient = TRUE]),
    RawObject(JsonObject),
    Fenced(JsonArray) }

CriteriaTexts ==
  { Prose, RawObject(JsonObject), Fenced(JsonArray) }
    \cup { RawObject([JsonObject EXCEPT !.missing_criteria = ArrayOf(l)]) : l \in GapLists }

\* Message contents of the narrative and of the explanation response.
HpiContents     == { <<>>, <<"*">>, <<" ", "h", "\n", "*", "h">> }
MappingContents == { <<>>, <<"*">>, <<"x", "\n", "-", "-", "-", "-", "\n", "y", " ">> }

AuditHpis     == { <<>>, <<" ">>, <<"b", "\r", "b">> }
AuditMappings == { <<>>, <<" ">>, <<"*", "m">> }

AuditValues ==
  { [JsonObject EXCEPT !.revised_hpi = h, !.missing_criteria = m,
                       !.mapping_explanation = e] :
      h \in AuditHpis,
      m \in {NotArray} \cup { ArrayOf(l) : l \in GapLists },
      e \in AuditMappings }

AuditTexts == { Prose, Fenced(JsonArray) } \cup { RawObject(v) : v \in AuditValues }

\* What atob and the PDF library make of a document payload: "undecodable"
\* and "misencoded" (atob throws), "unparseable" (pdf() throws), "empty"
\* (no text, or only white space), "text".
ExtractOutcomes == {"undecodable", "misencoded", "unparseable", "empty", "text"}

\* parsed.text as the PDF library gives it for a payload it can parse.
PdfText(o) == IF o = "text" THEN <<"p", " ">> ELSE <<" ">>

\* The erText field of the request body: absent, a note, only white space.
ErTexts == {<<>>, <<"n", " ">>, <<" ">>}

\* The labels parsePdfBase64 is called with.
Labels == {"ER Notes", "H&P", "MCG Guideline"}

\* ------------------------------------------------------------------------
\* State
\* ------------------------------------------------------------------------

\* The generation calls of one request, by the stage that issues them.
Stages == {"facts", "hpi", "criteria", "retry", "mapping", "audit"}

VARIABLES
  pc,                 \* where the handler is suspended ("done": it has returned)
  req,                \* the request
  call,               \* per stage: idle, pending, headers, neterr, aborted
  httpStatus,         \* per stage: the status of the response received (0: none)
  timer,              \* per stage: whether the call's abort timer is armed
  calls,              \* the calls issued so far, in order: stage and temperature
  parsed,             \* per structured stage: none, ok, fail (the stage's parse test)
  revisedHPI,         \* handler variable
  missingCriteria,    \* handler variable
  criteriaParsed,     \* handler variable
  mappingExplanation, \* handler variable
  pre,                \* the three outputs as they are when the self-audit call is issued
  audited,            \* what extractJSON gave for the self-audit text
  response,           \* the response returned (kind "none": not yet)
  erNotesText,        \* handler variable
  hpText,             \* handler variable
  mcgText,            \* handler variable
  extraction,         \* per label: none, pasted (erText used), or the outcome
  factsObj,           \* handler variable
  sourceNotes,        \* handler variable
  args,               \* the arguments of a helper called on its own
  ret,                \* what that helper returned
  genPc,              \* page: where the run of handleGenerate is suspended ("idle": none)
  isProcessing,       \* page: ClinicalProvider state
  progressStep,       \* page: ClinicalProvider state
  error,              \* page: the error message shown ("": none)
  result,             \* page: whether setResult was called with a result
  intervals,          \* page: the intervals set and not cleared
  progressInterval,   \* page: the interval of the current run of handleGenerate
  runs,               \* page: the runs of handleGenerate that passed the input checks
  form,               \* page: erMode, erText and whether erFile, hpFile, mcgFile are set
  mounted,            \* page: whether ClinicalInput is mounted (its route is shown)
  runMounted          \* page: whether the instance that started the run is still mounted

vars ==
  <<pc, req, call, httpStatus, timer, calls, parsed, revisedHPI, missingCriteria,
    criteriaParsed, mappingExplanation, pre, audited, response,
    erNotesText, hpText, mcgText, extraction, factsObj, sourceNotes, args, ret,
    genPc, isProcessing, progressStep, error, result, intervals, progressInterval, runs,
    form, mounted, runMounted>>

NoRequest ==
  [method |-> "none", json |-> FALSE, null |-> FALSE, erText |-> <<>>, erPdfBase64 |-> FALSE,
   hpPdfBase64 |-> FALSE, mcgPdfBase64 |-> FALSE, apiKey |-> FALSE]

NoAudit == [got |-> FALSE, value |-> JsonNull]

NoOutputs ==
  [revised_hpi |-> <<>>, missing_criteria |-> <<>>, mapping_explanation |-> <<>>]

\* No helper is called on its own.
NoArgs == [fn |-> "none"]
NoRet  == [fn |-> "none"]

\* The input page as it is loaded: ClinicalProvider's initial state, no
\* run of handleGenerate, no interval.
\* The form of ClinicalInput when it mounts.
InitialForm ==
  [erMode |-> "upload", erText |-> <<>>, erFile |-> FALSE, hpFile |-> FALSE,
   mcgFile |-> FALSE]

PageInit ==
  /\ genPc = "idle"
  /\ isProcessing = FALSE
  /\ progressStep = 0
  /\ error = ""
  /\ result = FALSE
  /\ intervals = {}
  /\ progressInterval = 0
  /\ runs = 0
  /\ form = InitialForm
  /\ mounted = TRUE
  /\ runMounted = FALSE

\* The handler before a request arrives (and the page that will call it).
HandlerInit ==
  /\ pc = "start"
  /\ req = NoRequest
  /\ call = [c \in Stages |-> "idle"]
  /\ httpStatus = [c \in Stages |-> 0]
  /\ timer = [c \in Stages |-> FALSE]
  /\ calls = <<>>
  /\ parsed = [c \in {"facts", "criteria", "retry", "audit"} |-> "none"]
  /\ revisedHPI = <<>>
  /\ missingCriteria = <<>>
  /\ criteriaParsed = FALSE
  /\ mappingExplanation = <<>>
  /\ pre = NoOutputs
  /\ audited = NoAudit
  /\ response = NoResponse
  /\ erNotesText = <<>>
  /\ hpText = <<>>
  /\ mcgText = <<>>
  /\ extraction = [l \in Labels |-> "none"]
  /\ factsObj = JsonNull
  /\ sourceNotes = <<>>
  /\ PageInit

Init ==
  /\ HandlerInit
  /\ args = NoArgs
  /\ ret = NoRet

\* ------------------------------------------------------------------------
\* Pieces of the handler
\* ------------------------------------------------------------------------

locals == <<revisedHPI, missingCriteria, criteriaParsed, mappingExplanation>>
net    == <<call, httpStatus, timer, calls>>
docs   == <<erNotesText, hpText, mcgText, extraction>>
pure   == <<args, ret>>
page   == <<genPc, isProcessing, progressStep, error, result, intervals, progressInterval, runs,
            form, mounted, runMounted>>
handler ==
  <<pc, req, call, httpStatus, timer, calls, parsed, revisedHPI, missingCriteria,
    criteriaParsed, mappingExplanation, pre, audited, response,
    erNotesText, hpText, mcgText, extraction, factsObj, sourceNotes>>

\* "Enforce limits" without the cut of the note text.
EnforceNotesUncut(er, hp) == er \o <<"\n", "\n">> \o hp

\* "Enforce limits": the note text handed to the prompts.
EnforceNotes(er, hp) == slice(er \o <<"\n", "\n">> \o hp, MAX_NOTES_CHARS)

\* "Enforce limits": the guideline text handed to chunkText and the prompts.
EnforceGuideline(mcg) ==
  IF Len(mcg) > MAX_GUIDELINE_CHARS THEN slice(mcg, MAX_GUIDELINE_CHARS) ELSE mcg

\* parsePdfBase64 without the test of the trimmed text (if (!text) throw).
parsePdfBase64KeepsEmpty(o, label) ==
  IF o \in {"undecodable", "misencoded"}
  THEN [threw |-> TRUE, name |-> "InvalidCharacterError", message |-> DecodeMsg(o),
        text |-> <<>>]
  ELSE IF o = "unparseable"
  THEN [threw |-> TRUE, name |-> "Error", message |-> ExtractMsg(label), text |-> <<>>]
  ELSE [threw |-> FALSE, name |-> "", message |-> "", text |-> trim(PdfText(o))]

\* parsePdfBase64(base64, label), for a payload of outcome o: what it
\* returns or throws.
parsePdfBase64(o, label) ==
  IF o \in {"undecodable", "misencoded"}
  THEN [threw |-> TRUE, name |-> "InvalidCharacterError", message |-> DecodeMsg(o),
        text |-> <<>>]
  ELSE IF o = "unparseable" \/ trim(PdfText(o)) = <<>>
  THEN [threw |-> TRUE, name |-> "Error", message |-> ExtractMsg(label), text |-> <<>>]
  ELSE [threw |-> FALSE, name |-> "", message |-> "", text |-> trim(PdfText(o))]

\* The temperature argument of each callAI site, in tenths.
Temperature(c) ==
  CASE c = "facts"    -> 0
    [] c = "hpi"      -> 2
    [] c = "criteria" -> 1
    [] c = "retry"    -> 0
    [] c = "mapping"  -> 2
    [] c = "audit"    -> 1

CallRecord(c) == [stage |-> c, temperature |-> Temperature(c)]

\* Where the handler is suspended while it awaits the fetch of call c:
\* the narrative and the gap-analysis call are awaited together (Promise.all).
WaitPc(c) == IF c \in {"hpi", "criteria"} THEN "join" ELSE c

\* return r
Return(r) == response' = r /\ pc' = "done"

\* throw an error of the given name and message: the catch block answers.
Throw(name, message) == Return(CatchError(name, message))

\* callAI(...) for each stage of cs, called in order in one turn: the fetch
\* is in flight and its abort timer is armed.
callAI(cs) ==
  /\ call' = [c \in Stages |-> IF \E i \in 1..Len(cs) : cs[i] = c THEN "pending" ELSE call[c]]
  /\ timer' = [c \in Stages |-> IF \E i \in 1..Len(cs) : cs[i] = c THEN TRUE ELSE timer[c]]
  /\ calls' = calls \o [i \in 1..Len(cs) |-> CallRecord(cs[i])]
  /\ UNCHANGED httpStatus

\* The fetch of call c settles (st: headers, neterr, aborted), with status s
\* when a response arrived; callAI's finally clears the timer.
Settle(c, st, s) ==
  /\ call' = [call EXCEPT ![c] = st]
  /\ httpStatus' = [httpStatus EXCEPT ![c] = s]
  /\ timer' = [timer EXCEPT ![c] = FALSE]
  /\ UNCHANGED calls

\* The parse test of the facts stage:  !(!factsObj || !factsObj.patient)
FactsUsable(v) == Truthy(v) /\ v.patient

\* The parse test of the gap-analysis stage and of its retry:
\*   obj && Array.isArray(obj.missing_criteria)
CriteriaUsable(v) == Truthy(v) /\ v.missing_criteria.isArray

\* "Final validation" and "Sanitize all outputs": the pre-audit return.
\* Gives the response and the handler variables as it leaves them.
FinalReturn(hpi, criteria, mapping) ==
  IF hpi = <<>> \/ mapping = <<>>
  THEN [resp |-> CatchError("Error", IncompleteMsg), hpi |-> hpi, criteria |-> criteria]
  ELSE [resp |-> SuccessResponse(sanitizeHPI(hpi), sanitizeCriteria(criteria),
                                 sanitizeMapping(mapping)),
        hpi |-> sanitizeHPI(hpi), criteria |-> sanitizeCriteria(criteria)]
\* AuditOutcome that never takes the narrative of the audit.
AuditOutcomeKeepsNarrative(a, hpi, criteria, mapping) ==
  IF Truthy(a)
  THEN LET m1 == IF a.missing_criteria.isArray
                 THEN filterCriteria(a.missing_criteria.items) ELSE criteria
       IN  IF a.mapping_explanation # <<>>
           THEN [resp |-> SuccessResponse(sanitizeHPI(hpi), sanitizeCriteria(m1),
                                          sanitizeMapping(a.mapping_explanation)),
                 hpi |-> sanitizeHPI(hpi), criteria |-> sanitizeCriteria(m1)]
           ELSE FinalReturn(hpi, m1, mapping)
  ELSE FinalReturn(hpi, criteria, mapping)

\* The self-audit stage from the parsed audit value a on (if (audited) ...),
\* with the handler variables hpi, criteria and mapping as they are before it.
AuditOutcome(a, hpi, criteria, mapping) ==
  IF Truthy(a)
  THEN LET h1 == IF a.revised_hpi # <<>> THEN a.revised_hpi ELSE hpi
           m1 == IF a.missing_criteria.isArray
                 THEN filterCriteria(a.missing_criteria.items) ELSE criteria
       IN  IF a.mapping_explanation # <<>>
           THEN [resp |-> SuccessResponse(sanitizeHPI(h1), sanitizeCriteria(m1),
                                          sanitizeMapping(a.mapping_explanation)),
                 hpi |-> sanitizeHPI(h1), criteria |-> sanitizeCriteria(m1)]
           ELSE FinalReturn(h1, m1, mapping)
  ELSE FinalReturn(hpi, criteria, mapping)

\* ------------------------------------------------------------------------
\* Actions: one per turn of the handler, from the event that resumes it to
\* its next suspension
\* ------------------------------------------------------------------------

\* The request arrives: an OPTIONS request is answered, for any other the
\* handler awaits req.json().
Enter ==
  /\ pc = "start"
  /\ \E m \in {"OPTIONS", "POST"} :
       /\ req' = [NoRequest EXCEPT !.method = m]
       /\ IF m = "OPTIONS" THEN Return(PreflightResponse)
          ELSE pc' = "readBody" /\ UNCHANGED response
  /\ UNCHANGED <<pure, page, sourceNotes, docs, factsObj, net, locals, parsed, pre, audited>>

\* req.json() settles: the body cannot be read as JSON, or it is null
\* (destructuring it throws), or it is a value whose fields are taken:
\* "Validate inputs", the API key, up to the first text extraction the
\* handler awaits.
Receive ==
  /\ pc = "readBody"
  /\ \E j \in BOOLEAN, n \in BOOLEAN, t \in ErTexts,
        e \in BOOLEAN, h \in BOOLEAN, g \in BOOLEAN, k \in BOOLEAN :
       /\ n => j
       /\ (~j \/ n) => (t = <<>> /\ ~e /\ ~h /\ ~g)
       /\ req' = [method |-> req.method, json |-> j, null |-> n, erText |-> t,
                  erPdfBase64 |-> e, hpPdfBase64 |-> h, mcgPdfBase64 |-> g, apiKey |-> k]
       /\ IF ~j THEN \E msg \in BodyMsgs : Throw("SyntaxError", msg)
          ELSE IF n THEN Throw("TypeError", NullBodyMsg)
          ELSE IF t = <<>> /\ ~e THEN Return(errorResponse(ErRequiredMsg, 400))
          ELSE IF ~h THEN Return(errorResponse(HpRequiredMsg, 400))
          ELSE IF ~g THEN Return(errorResponse(McgRequiredMsg, 400))
          ELSE IF ~k THEN Return(errorResponse(ApiKeyMsg, 500))
          ELSE /\ pc' = IF t # <<>> THEN "extractHP" ELSE "extractER"
               /\ UNCHANGED response
       /\ IF j /\ ~n /\ (t # <<>> \/ e) /\ h /\ g /\ k /\ t # <<>>
          THEN /\ erNotesText' = trim(t)
               /\ extraction' = [extraction EXCEPT !["ER Notes"] = "pasted"]
          ELSE UNCHANGED <<erNotesText, extraction>>
  /\ UNCHANGED <<pure, page, sourceNotes, net, locals, parsed, pre, audited, hpText, mcgText,
                 factsObj>>

DocLabel == CASE pc = "extractER" -> "ER Notes"
              [] pc = "extractHP" -> "H&P"
              [] pc = "extractMCG" -> "MCG Guideline"

\* parsePdfBase64 of the document the handler awaits settles; after the
\* last one the handler bounds the texts and issues the facts call.
ExtractDoc ==
  /\ pc \in {"extractER", "extractHP", "extractMCG"}
  /\ \E o \in ExtractOutcomes :
       LET r == parsePdfBase64(o, DocLabel)
       IN  /\ extraction' = [extraction EXCEPT ![DocLabel] = o]
           /\ IF r.threw
              THEN /\ Throw(r.name, r.message)
                   /\ UNCHANGED <<net, erNotesText, hpText, mcgText, sourceNotes>>
              ELSE /\ erNotesText' = IF pc = "extractER" THEN r.text ELSE erNotesText
                   /\ hpText' = IF pc = "extractHP" THEN r.text ELSE hpText
                   /\ IF pc = "extractMCG"
                      THEN /\ mcgText' = EnforceGuideline(r.text)
                           /\ sourceNotes' = EnforceNotes(erNotesText, hpText)
                           /\ pc' = "facts" /\ callAI(<<"facts">>)
                           /\ UNCHANGED response
                      ELSE /\ pc' = IF pc = "extractER" THEN "extractHP"
                                    ELSE "extractMCG"
                           /\ UNCHANGED <<net, response, mcgText, sourceNotes>>
  /\ UNCHANGED <<pure, page, req, locals, parsed, pre, audited, factsObj>>

\* The facts call gets a response (Stage 0, the status checks).
FactsResponse ==
  /\ pc = "facts" /\ call["facts"] = "pending"
  /\ \E s \in HttpStatuses :
       /\ Settle("facts", "headers", s)
       /\ IF Ok(s) THEN pc' = "factsBody" /\ UNCHANGED response
          ELSE IF Handled(s) THEN Return(handleAIStatus(s))
          ELSE pc' = "factsErrText" /\ UNCHANGED response
  /\ UNCHANGED <<pure, page, sourceNotes, req, docs, factsObj, locals, parsed, pre, audited>>
\* FactsBody that goes on to the concurrent step whatever the parse gives.
FactsBodyNeverAborts ==
  /\ pc = "factsBody"
  /\ \E text \in FactsTexts :
       /\ factsObj' = extractJSON(text)
       /\ parsed' = [parsed EXCEPT !["facts"] =
                       IF FactsUsable(extractJSON(text)) THEN "ok" ELSE "fail"]
  /\ pc' = "join"
  /\ callAI(<<"hpi", "criteria">>)
  /\ UNCHANGED <<pure, page, sourceNotes, req, docs, locals, pre, audited, response>>

\* The body of the facts response is read (Stage 0 parse, Stage 2, and the
\* two calls of Stage 1 + 3 are issued).
FactsBody ==
  /\ pc = "factsBody"
  /\ \E text \in FactsTexts :
       /\ factsObj' = extractJSON(text)
       /\ IF FactsUsable(extractJSON(text))
          THEN /\ parsed' = [parsed EXCEPT !["facts"] = "ok"]
               /\ pc' = "join"
               /\ callAI(<<"hpi", "criteria">>)
               /\ UNCHANGED response
          ELSE /\ parsed' = [parsed EXCEPT !["facts"] = "fail"]
               /\ Throw("Error", FactsMsg)
               /\ UNCHANGED net
  /\ UNCHANGED <<pure, page, sourceNotes, req, docs, locals, pre, audited>>

\* The first response, in the order [hpiResp, criteriaResp], that is not ok.
FirstNotOk(st) == IF ~Ok(st["hpi"]) THEN "hpi" ELSE "criteria"

\* JoinResponse whose status check looks at the gap-analysis response only.
JoinResponseChecksGapOnly ==
  /\ pc \in {"join", "done"}
  /\ \E c \in {"hpi", "criteria"}, s \in HttpStatuses :
       /\ call[c] = "pending"
       /\ Settle(c, "headers", s)
       /\ LET other == IF c = "hpi" THEN "criteria" ELSE "hpi"
              st == [httpStatus EXCEPT ![c] = s]
          IN  IF pc = "done" \/ call[other] # "headers" THEN UNCHANGED <<pc, response>>
              ELSE IF Ok(st["criteria"])
              THEN pc' = "hpiBody" /\ UNCHANGED response
              ELSE IF Handled(st[FirstNotOk(st)])
              THEN Return(handleAIStatus(st[FirstNotOk(st)]))
              ELSE pc' = "joinErrText" /\ UNCHANGED response
  /\ UNCHANGED <<pure, page, sourceNotes, req, docs, factsObj, locals, parsed, pre, audited>>

\* One of the two concurrent calls gets a response; when both have one,
\* Promise.all is fulfilled and the handler checks the statuses in order.
\* After the handler has returned for the failure of the other call, the
\* response only ends the call (callAI clears its timer).
JoinResponse ==
  /\ pc \in {"join", "done"}
  /\ \E c \in {"hpi", "criteria"}, s \in HttpStatuses :
       /\ call[c] = "pending"
       /\ Settle(c, "headers", s)
       /\ LET other == IF c = "hpi" THEN "criteria" ELSE "hpi"
              st == [httpStatus EXCEPT ![c] = s]
          IN  IF pc = "done" \/ call[other] # "headers" THEN UNCHANGED <<pc, response>>
              ELSE IF Ok(st["hpi"]) /\ Ok(st["criteria"])
              THEN pc' = "hpiBody" /\ UNCHANGED response
              ELSE IF Handled(st[FirstNotOk(st)])
              THEN Return(handleAIStatus(st[FirstNotOk(st)]))
              ELSE pc' = "joinErrText" /\ UNCHANGED response
  /\ UNCHANGED <<pure, page, sourceNotes, req, docs, factsObj, locals, parsed, pre, audited>>

\* The body of an error response is read (await resp.text()), and the
\* handler throws its gateway error.
ErrorText ==
  /\ pc \in {"factsErrText", "joinErrText"}
  /\ IF pc = "factsErrText"
     THEN Throw("Error", FactsGatewayMsg(httpStatus["facts"]))
     ELSE Throw("Error", GatewayMsg(httpStatus[FirstNotOk(httpStatus)]))
  /\ UNCHANGED <<pure, page, sourceNotes, req, docs, factsObj, net, locals, parsed, pre, audited>>

\* The body of the narrative response is read.
HpiBody ==
  /\ pc = "hpiBody"
  /\ \E content \in HpiContents : revisedHPI' = extractAIText(content)
  /\ pc' = "criteriaBody"
  /\ UNCHANGED <<pure, page, sourceNotes, req, docs, factsObj, net, missingCriteria, criteriaParsed, mappingExplanation,
                 parsed, pre, audited, response>>

\* CriteriaBody that issues the mapping call together with the retry call.
CriteriaBodyMapsWhileRetrying ==
  /\ pc = "criteriaBody"
  /\ \E text \in CriteriaTexts :
       LET obj == extractJSON(text)
       IN  IF CriteriaUsable(obj)
           THEN /\ parsed' = [parsed EXCEPT !["criteria"] = "ok"]
                /\ criteriaParsed' = TRUE
                /\ missingCriteria' = filterCriteria(obj.missing_criteria.items)
                /\ pc' = "mapping"
                /\ callAI(<<"mapping">>)
           ELSE /\ parsed' = [parsed EXCEPT !["criteria"] = "fail"]
                /\ pc' = "retry"
                /\ callAI(<<"retry", "mapping">>)
                /\ UNCHANGED <<criteriaParsed, missingCriteria>>
  /\ UNCHANGED <<pure, page, sourceNotes, req, docs, factsObj, revisedHPI, mappingExplanation, pre, audited, response>>

\* The body of the gap-analysis response is read: parse, then either the
\* retry call or "Validate statuses" and the mapping call.
CriteriaBody ==
  /\ pc = "criteriaBody"
  /\ \E text \in CriteriaTexts :
       LET obj == extractJSON(text)
       IN  IF CriteriaUsable(obj)
           THEN /\ parsed' = [parsed EXCEPT !["criteria"] = "ok"]
                /\ criteriaParsed' = TRUE
                /\ missingCriteria' = filterCriteria(obj.missing_criteria.items)
                /\ pc' = "mapping"
                /\ callAI(<<"mapping">>)
           ELSE /\ parsed' = [parsed EXCEPT !["criteria"] = "fail"]
                /\ pc' = "retry"
                /\ callAI(<<"retry">>)
                /\ UNCHANGED <<criteriaParsed, missingCriteria>>
  /\ UNCHANGED <<pure, page, sourceNotes, req, docs, factsObj, revisedHPI, mappingExplanation, pre, audited, response>>

\* The retry call gets a response: its body is awaited when it is ok,
\* otherwise the handler goes on with the empty list.
RetryResponse ==
  /\ pc = "retry" /\ call["retry"] = "pending"
  /\ \E s \in HttpStatuses :
       IF Ok(s)
       THEN /\ Settle("retry", "headers", s)
            /\ pc' = "retryBody"
            /\ UNCHANGED missingCriteria
       ELSE /\ call' = [call EXCEPT !["retry"] = "headers", !["mapping"] = "pending"]
            /\ httpStatus' = [httpStatus EXCEPT !["retry"] = s]
            /\ timer' = [timer EXCEPT !["retry"] = FALSE, !["mapping"] = TRUE]
            /\ calls' = Append(calls, CallRecord("mapping"))
            /\ missingCriteria' = filterCriteria(missingCriteria)
            /\ pc' = "mapping"
  /\ UNCHANGED <<pure, page, sourceNotes, req, docs, factsObj, revisedHPI, criteriaParsed, mappingExplanation,
                 parsed, pre, audited, response>>
\* RetryBody that throws when the retry does not parse either.
RetryBodyAborts ==
  /\ pc = "retryBody"
  /\ \E text \in CriteriaTexts :
       LET obj == extractJSON(text)
       IN  IF CriteriaUsable(obj)
           THEN /\ parsed' = [parsed EXCEPT !["retry"] = "ok"]
                /\ missingCriteria' = filterCriteria(obj.missing_criteria.items)
                /\ pc' = "mapping"
                /\ callAI(<<"mapping">>)
                /\ UNCHANGED response
           ELSE /\ parsed' = [parsed EXCEPT !["retry"] = "fail"]
                /\ Throw("Error", "Failed to parse missing criteria.")
                /\ UNCHANGED <<net, missingCriteria>>
  /\ UNCHANGED <<pure, page, sourceNotes, req, docs, factsObj, revisedHPI, criteriaParsed, mappingExplanation, pre, audited>>

\* The body of the retry response is read.
RetryBody ==
  /\ pc = "retryBody"
  /\ \E text \in CriteriaTexts :
       LET obj == extractJSON(text)
       IN  /\ parsed' = [parsed EXCEPT !["retry"] =
                            IF CriteriaUsable(obj) THEN "ok" ELSE "fail"]
           /\ missingCriteria' =
                filterCriteria(IF CriteriaUsable(obj) THEN obj.missing_criteria.items
                               ELSE missingCriteria)
  /\ pc' = "mapping"
  /\ callAI(<<"mapping">>)
  /\ UNCHANGED <<pure, page, sourceNotes, req, docs, factsObj, revisedHPI, criteriaParsed, mappingExplanation,
                 pre, audited, response>>

\* MappingResponse that reads the body whatever the status.
MappingResponseIgnoresStatus ==
  /\ pc = "mapping" /\ call["mapping"] = "pending"
  /\ \E s \in HttpStatuses :
       /\ Settle("mapping", "headers", s)
       /\ pc' = "mappingBody" /\ UNCHANGED response
  /\ UNCHANGED <<pure, page, sourceNotes, req, docs, factsObj, locals, parsed, pre, audited>>

\* The mapping call gets a response (Stage 4, the status checks).
MappingResponse ==
  /\ pc = "mapping" /\ call["mapping"] = "pending"
  /\ \E s \in HttpStatuses :
       /\ Settle("mapping", "headers", s)
       /\ IF Ok(s) THEN pc' = "mappingBody" /\ UNCHANGED response
          ELSE IF Handled(s) THEN Return(handleAIStatus(s))
          ELSE Throw("Error", GatewayMsg(s))
  /\ UNCHANGED <<pure, page, sourceNotes, req, docs, factsObj, locals, parsed, pre, audited>>

\* The body of the mapping response is read, and the self-audit call issued.
MappingBody ==
  /\ pc = "mappingBody"
  /\ \E content \in MappingContents :
       LET m == extractAIText(content)
       IN  /\ mappingExplanation' = m
           /\ pre' = [revised_hpi |-> revisedHPI, missing_criteria |-> missingCriteria,
                      mapping_explanation |-> m]
  /\ pc' = "audit"
  /\ callAI(<<"audit">>)
  /\ UNCHANGED <<pure, page, sourceNotes, req, docs, factsObj, revisedHPI, missingCriteria, criteriaParsed, parsed,
                 audited, response>>

\* AuditResponse that answers a 429 or 402 of the self-audit call with the
\* rate-limit or quota response, as the earlier stages do.
AuditResponseSurfacesStatus ==
  /\ pc = "audit" /\ call["audit"] = "pending"
  /\ \E s \in HttpStatuses :
       /\ Settle("audit", "headers", s)
       /\ IF Ok(s)
          THEN pc' = "auditBody" /\ UNCHANGED <<response, revisedHPI, missingCriteria>>
          ELSE IF Handled(s)
          THEN Return(handleAIStatus(s)) /\ UNCHANGED <<revisedHPI, missingCriteria>>
          ELSE LET out == FinalReturn(revisedHPI, missingCriteria, mappingExplanation)
               IN  /\ Return(out.resp)
                   /\ revisedHPI' = out.hpi
                   /\ missingCriteria' = out.criteria
  /\ UNCHANGED <<pure, page, sourceNotes, req, docs, factsObj, criteriaParsed, mappingExplanation, parsed, pre, audited>>

\* The self-audit call gets a response: its body is awaited when it is ok,
\* otherwise the pre-audit outputs are returned.
AuditResponse ==
  /\ pc = "audit" /\ call["audit"] = "pending"
  /\ \E s \in HttpStatuses :
       /\ Settle("audit", "headers", s)
       /\ IF Ok(s)
          THEN pc' = "auditBody" /\ UNCHANGED <<response, revisedHPI, missingCriteria>>
          ELSE LET out == FinalReturn(revisedHPI, missingCriteria, mappingExplanation)
               IN  /\ Return(out.resp)
                   /\ revisedHPI' = out.hpi
                   /\ missingCriteria' = out.criteria
  /\ UNCHANGED <<pure, page, sourceNotes, req, docs, factsObj, criteriaParsed, mappingExplanation, parsed, pre, audited>>

\* The body of the self-audit response is read: the audited outputs are
\* returned, or the pre-audit ones.
AuditBody ==
  /\ pc = "auditBody"
  /\ \E text \in AuditTexts :
       LET a == extractJSON(text)
           out == AuditOutcome(a, revisedHPI, missingCriteria, mappingExplanation)
       IN  /\ audited' = [got |-> TRUE, value |-> a]
           /\ parsed' = [parsed EXCEPT !["audit"] =
                           IF Truthy(a) /\ a.mapping_explanation # <<>> THEN "ok" ELSE "fail"]
           /\ Return(out.resp)
           /\ revisedHPI' = out.hpi
           /\ missingCriteria' = out.criteria
  /\ UNCHANGED <<pure, page, sourceNotes, req, docs, factsObj, net, criteriaParsed, mappingExplanation, pre>>

\* Reading a response body fails: resp.text() and resp.json() reject when
\* the stream of the body fails, resp.json() also when the body is not JSON.
BodyFail ==
  /\ pc \in {"factsBody", "factsErrText", "joinErrText", "hpiBody", "criteriaBody",
             "retryBody", "mappingBody", "auditBody"}
  /\ \/ Throw("TypeError", StreamMsg)
     \/ /\ pc \notin {"factsErrText", "joinErrText"}
        /\ \E msg \in BodyMsgs : Throw("SyntaxError", msg)
  /\ UNCHANGED <<pure, page, sourceNotes, req, docs, factsObj, net, locals, parsed, pre, audited>>

\* NetworkError that issues the failed call again instead of throwing.
NetworkErrorReissues ==
  /\ \E c \in Stages :
       /\ call[c] = "pending" /\ pc \in {WaitPc(c), "done"}
       /\ calls' = Append(calls, CallRecord(c))
  /\ UNCHANGED <<pure, page, sourceNotes, pc, req, docs, factsObj, call, httpStatus, timer, locals, parsed,
                 pre, audited, response>>

\* The fetch of a call fails at the network level: the handler, awaiting
\* it, throws; after the handler has returned for the failure of the other
\* call of the pair, the rejection only ends the call.
NetworkError ==
  /\ \E c \in Stages :
       /\ call[c] = "pending" /\ pc \in {WaitPc(c), "done"}
       /\ Settle(c, "neterr", 0)
  /\ IF pc = "done" THEN UNCHANGED <<pc, response>> ELSE Throw("TypeError", NetworkMsg)
  /\ UNCHANGED <<pure, page, sourceNotes, req, docs, factsObj, locals, parsed, pre, audited>>

\* The abort timer of call c fires while its fetch is pending: the fetch
\* rejects with an AbortError, which the handler throws when it awaits the
\* call (not when it has returned for the failure of the other call).
Timeout(c) ==
  /\ call[c] = "pending" /\ timer[c] /\ pc \in {WaitPc(c), "done"}
  /\ Settle(c, "aborted", 0)
  /\ IF pc = "done" THEN UNCHANGED <<pc, response>>
     ELSE Throw("AbortError", "The signal has been aborted")
  /\ UNCHANGED <<pure, page, sourceNotes, req, docs, factsObj, locals, parsed, pre, audited>>

Next ==
  \/ Enter
  \/ Receive
  \/ ExtractDoc
  \/ FactsResponse
  \/ FactsBody
  \/ JoinResponse
  \/ ErrorText
  \/ HpiBody
  \/ CriteriaBody
  \/ RetryResponse
  \/ RetryBody
  \/ MappingResponse
  \/ MappingBody
  \/ AuditResponse
  \/ AuditBody
  \/ BodyFail
  \/ NetworkError
  \/ \E c \in Stages : Timeout(c)

Spec == Init /\ [][Next]_vars

\* Timers fire, and the handler's own first turns (request parsing, text
\* extraction) complete; nothing makes the generation service answer.
FairSpec ==
  /\ Spec
  /\ WF_vars(Enter)
  /\ WF_vars(Receive)
  /\ WF_vars(ExtractDoc)
  /\ \A c \in Stages : WF_vars(Timeout(c))

\* ------------------------------------------------------------------------
\* chunkText
\* ------------------------------------------------------------------------

\* text.replace(/\r\n/g, "\n")
RECURSIVE ReplaceCRLF(_)
ReplaceCRLF(s) ==
  IF s = <<>> THEN <<>>
  ELSE IF Len(s) >= 2 /\ s[1] = "\r" /\ s[2] = "\n"
       THEN <<"\n">> \o ReplaceCRLF(SubSeq(s, 3, Len(s)))
       ELSE <<s[1]>> \o ReplaceCRLF(Tail(s))

\* .replace(/[ \t]+/g, " ")
RECURSIVE CollapseBlanks(_)
CollapseBlanks(s) ==
  IF s = <<>> THEN <<>>
  ELSE IF s[1] \in {" ", "\t"}
       THEN <<" ">> \o CollapseBlanks(SubSeq(s, SkipWhile(s, 1, {" ", "\t"}), Len(s)))
       ELSE <<s[1]>> \o CollapseBlanks(Tail(s))

\* const normalized = ...
normalized(text) == trim(CollapseBlanks(ReplaceCRLF(text)))

\* s.split(/\n{2,}/): the pieces of s from index start on, scanning at i.
RECURSIVE SplitParagraphs(_, _, _)
SplitParagraphs(s, start, i) ==
  IF i > Len(s) THEN << SubSeq(s, start, Len(s)) >>
  ELSE IF s[i] = "\n" /\ i < Len(s) /\ s[i + 1] = "\n"
       THEN LET j == SkipWhile(s, i, {"\n"})
            IN  << SubSeq(s, start, i - 1) >> \o SplitParagraphs(s, j, j)
       ELSE SplitParagraphs(s, start, i + 1)

\* s.split(/(?<=[.!?])\s+/): the pieces of s from index start on, scanning at i.
RECURSIVE SplitSentences(_, _, _)
SplitSentences(s, start, i) ==
  IF i > Len(s) THEN << SubSeq(s, start, Len(s)) >>
  ELSE IF s[i] \in WhiteSpace /\ i > 1 /\ s[i - 1] \in {".", "!", "?"}
       THEN LET j == SkipWhile(s, i, WhiteSpace)
            IN  << SubSeq(s, start, i - 1) >> \o SplitSentences(s, j, j)
       ELSE SplitSentences(s, start, i + 1)

\* ParagraphBranch that tries the overflow allowance before the minLen flush.
ParagraphBranchAllowanceFirst(st, para, minLen, maxLen) ==
  LET trimmed == trim(para)
  IN  IF trimmed = <<>> THEN "continue"
      ELSE IF Len(st.current) + Len(trimmed) + 1 <= maxLen THEN "append"
      ELSE IF 5 * (Len(st.current) + Len(trimmed) + 1) <= 6 * maxLen THEN "allowance"
      ELSE IF Len(st.current) >= minLen THEN "flush"
      ELSE "restart"

\* The branch one turn of the loop over the paragraphs takes; st holds
\* chunks and current. "continue": the paragraph is blank; "append": it
\* keeps the buffer within maxLen; "flush": the buffer has minLen characters
\* and is pushed; "allowance": it is appended within maxLen * 1.2;
\* "restart": the last else.
\* (x <= maxLen * 1.2 for an integer x is 5 * x <= 6 * maxLen.)
ParagraphBranch(st, para, minLen, maxLen) ==
  LET trimmed == trim(para)
  IN  IF trimmed = <<>> THEN "continue"
      ELSE IF Len(st.current) + Len(trimmed) + 1 <= maxLen THEN "append"
      ELSE IF Len(st.current) >= minLen THEN "flush"
      ELSE IF 5 * (Len(st.current) + Len(trimmed) + 1) <= 6 * maxLen THEN "allowance"
      ELSE "restart"

\* One turn of the loop over the paragraphs.
ParagraphStep(st, para, minLen, maxLen) ==
  LET trimmed == trim(para)
      branch  == ParagraphBranch(st, para, minLen, maxLen)
      joined  == st.current \o (IF st.current # <<>> THEN <<"\n", "\n">> ELSE <<>>)
                   \o trimmed
  IN  IF branch = "continue" THEN st
      ELSE IF branch \in {"append", "allowance"} THEN [st EXCEPT !.current = joined]
      ELSE IF branch = "flush"
      THEN [chunks |-> Append(st.chunks, st.current), current |-> trimmed]
      ELSE [chunks |-> IF st.current # <<>> THEN Append(st.chunks, st.current)
                       ELSE st.chunks,
            current |-> trimmed]

\* The loop over the paragraphs, from paragraph i on.
RECURSIVE Paragraphs(_, _, _, _, _)
Paragraphs(paras, i, st, minLen, maxLen) ==
  IF i > Len(paras) THEN st
  ELSE Paragraphs(paras, i + 1, ParagraphStep(st, paras[i], minLen, maxLen),
                  minLen, maxLen)
\* PushCurrent without the test of current.
PushCurrentAlways(st) == Append(st.chunks, st.current)

\* if (current) chunks.push(current);
PushCurrent(st) == IF st.current # <<>> THEN Append(st.chunks, st.current) ELSE st.chunks

\* One turn of the loop over the sentences; st holds final and buf.
SentenceStep(st, sentence, maxLen) ==
  IF Len(st.buf) + Len(sentence) + 1 <= maxLen
  THEN [st EXCEPT !.buf = st.buf \o (IF st.buf # <<>> THEN <<" ">> ELSE <<>>) \o sentence]
  ELSE [final |-> IF st.buf # <<>> THEN Append(st.final, st.buf) ELSE st.final,
        buf |-> sentence]

\* The loop over the sentences, from sentence i on.
RECURSIVE Sentences(_, _, _, _)
Sentences(sentences, i, st, maxLen) ==
  IF i > Len(sentences) THEN st
  ELSE Sentences(sentences, i + 1, SentenceStep(st, sentences[i], maxLen), maxLen)
\* SplitChunk that leaves out the last buf.
SplitChunkDropsLast(final, chunk, maxLen) ==
  IF Len(chunk) <= maxLen THEN Append(final, chunk)
  ELSE Sentences(SplitSentences(chunk, 1, 1), 1, [final |-> final, buf |-> <<>>],
                 maxLen).final

\* One turn of the loop over the chunks: a chunk longer than maxLen is split
\* at its sentence ends.
SplitChunk(final, chunk, maxLen) ==
  IF Len(chunk) <= maxLen THEN Append(final, chunk)
  ELSE LET st == Sentences(SplitSentences(chunk, 1, 1), 1,
                           [final |-> final, buf |-> <<>>], maxLen)
       IN  IF st.buf # <<>> THEN Append(st.final, st.buf) ELSE st.final

\* The loop over the chunks, from chunk i on.
RECURSIVE SplitChunks(_, _, _, _)
SplitChunks(chunks, i, final, maxLen) ==
  IF i > Len(chunks) THEN final
  ELSE SplitChunks(chunks, i + 1, SplitChunk(final, chunks[i], maxLen), maxLen)

\* The turns of the loop over the paragraphs, from paragraph i on: the
\* branch each turn takes and the buffer it leaves.
RECURSIVE ParagraphTurns(_, _, _, _, _)
ParagraphTurns(paras, i, st, minLen, maxLen) ==
  IF i > Len(paras) THEN <<>>
  ELSE LET next == ParagraphStep(st, paras[i], minLen, maxLen)
       IN  << [branch |-> ParagraphBranch(st, paras[i], minLen, maxLen),
               current |-> next.current] >>
             \o ParagraphTurns(paras, i + 1, next, minLen, maxLen)

chunkText(text, minLen, maxLen) ==
  LET paragraphs == SplitParagraphs(normalized(text), 1, 1)
      st == Paragraphs(paragraphs, 1, [chunks |-> <<>>, current |-> <<>>], minLen, maxLen)
  IN  SplitChunks(PushCurrent(st), 1, <<>>, maxLen)

\* The characters of the texts chunkText is applied to.
ChunkChars == {"a", ".", " ", "\n"}

\* The texts of at most n characters.
Texts(chars, n) == UNION { [1..m -> chars] : m \in 0..n }

\* The (minLen, maxLen) pairs chunkText is applied with.
ChunkLens == {<<1, 1>>, <<2, 5>>}

\* Texts of up to MaxParas paragraphs of one word each, separated by blank
\* lines, and the (minLen, maxLen) pairs they are chunked with.
ParaLens == {1, 4, 5, 10}
Word(n) == [i \in 1..n |-> "a"]

RECURSIVE JoinParagraphs(_, _)
JoinParagraphs(lens, i) ==
  IF i > Len(lens) THEN <<>>
  ELSE Word(lens[i]) \o (IF i < Len(lens) THEN <<"\n", "\n">> ELSE <<>>)
         \o JoinParagraphs(lens, i + 1)

ParaTexts == { JoinParagraphs(lens, 1) : lens \in UNION { [1..n -> ParaLens] : n \in 1..MaxParas } }
ParaChunkLens == {<<2, 5>>, <<2, 10>>}

ChunkInputs ==
  { [fn |-> "chunkText", text |-> t, minLen |-> b[1], maxLen |-> b[2]] :
      t \in Texts(ChunkChars, MaxTextLen), b \in ChunkLens }
  \cup
  { [fn |-> "chunkText", text |-> t, minLen |-> b[1], maxLen |-> b[2]] :
      t \in ParaTexts, b \in ParaChunkLens }

ChunkInit ==
  /\ HandlerInit
  /\ args \in ChunkInputs
  /\ ret = NoRet

\* chunkText(text, minLen, maxLen) is called and returns.
CallChunkText ==
  /\ args.fn = "chunkText" /\ ret = NoRet
  /\ ret' = [fn |-> "chunkText",
             chunks |-> chunkText(args.text, args.minLen, args.maxLen),
             turns |-> ParagraphTurns(SplitParagraphs(normalized(args.text), 1, 1), 1,
                                      [chunks |-> <<>>, current |-> <<>>],
                                      args.minLen, args.maxLen)]
  /\ UNCHANGED <<args, handler, page>>

ChunkNext == CallChunkText

ChunkSpec == ChunkInit /\ [][ChunkNext]_vars

\* ------------------------------------------------------------------------
\* tokenize and scoreBM25
\* ------------------------------------------------------------------------

UpperCase ==
  <<"A", "B", "C", "D", "E", "F", "G", "H", "I", "J", "K", "L", "M",
    "N", "O", "P", "Q", "R", "S", "T", "U", "V", "W", "X", "Y", "Z">>
LowerCase ==
  <<"a", "b", "c", "d", "e", "f", "g", "h", "i", "j", "k", "l", "m",
    "n", "o", "p", "q", "r", "s", "t", "u", "v", "w", "x", "y", "z">>
Digits == {"0", "1", "2", "3", "4", "5", "6", "7", "8", "9"}

\* String.prototype.toLowerCase, on the letters A to Z.
toLowerCase(s) ==
  <<>> \o [i \in 1..Len(s) |->
            IF \E j \in 1..26 : UpperCase[j] = s[i]
            THEN LowerCase[CHOOSE j \in 1..26 : UpperCase[j] = s[i]]
            ELSE s[i]]

\* .replace(/[^a-z0-9\s]/g, " ")
ReplaceNonWord(s) ==
  <<>> \o [i \in 1..Len(s) |->
            IF s[i] \in Digits \cup WhiteSpace \/ \E j \in 1..26 : LowerCase[j] = s[i]
            THEN s[i] ELSE " "]

\* The first index j >= i of s whose character is in S (Len(s)+1 if none).
RECURSIVE SkipTo(_, _, _)
SkipTo(s, i, S) ==
  IF i > Len(s) \/ s[i] \in S THEN i ELSE SkipTo(s, i + 1, S)

\* .split(/\s+/).filter(t => t.length > 2), from index i of s on.
RECURSIVE SplitWords(_, _)
SplitWords(s, i) ==
  LET a == SkipWhile(s, i, WhiteSpace)
      b == SkipTo(s, a, WhiteSpace)
  IN  IF a > Len(s) THEN <<>>
      ELSE (IF b - a > 2 THEN << SubSeq(s, a, b - 1) >> ELSE <<>>) \o SplitWords(s, b)

tokenize(text) == SplitWords(ReplaceNonWord(toLowerCase(text)), 1)

\* Scores are kept in millionths, rounded down.
ScoreUnit == 1000000

\* Logarithms are kept in units of 10^-8, rounded down.
LogUnit == 100000000

\* The integer part of x * a / b, for x >= 0 and a, b > 0.
MulDiv(x, a, b) == (x \div b) * a + ((x % b) * a) \div b

\* The sum of t/n + t'/(n+2) + ... of the series of the logarithm, where
\* each term is the one before times a2/b2.
RECURSIVE LnSeries(_, _, _, _)
LnSeries(t, n, a2, b2) ==
  IF t = 0 THEN 0 ELSE (t \div n) + LnSeries(MulDiv(t, a2, b2), n + 2, a2, b2)

\* Math.log(p / q) for integers p > q > 0, in units of 10^-8:
\* ln(p/q) = 2 (z + z^3/3 + z^5/5 + ...) with z = (p - q) / (p + q).
MathLog(p, q) ==
  2 * LnSeries((LogUnit * (p - q)) \div (p + q), 1, (p - q) * (p - q), (p + q) * (p + q))

\* The number of occurrences of t in tokens: tf[t], 0 when absent.
Occurrences(tokens, t) == Cardinality({ i \in 1..Len(tokens) : tokens[i] = t })

\* df[t]: the number of chunks whose tokens include t.
DocFreq(tokensList, t) ==
  Cardinality({ i \in 1..Len(tokensList) : Occurrences(tokensList[i], t) > 0 })

\* The sum of the lengths of the token lists (avgDl is this sum over N).
RECURSIVE TotalLength(_)
TotalLength(tokensList) ==
  IF tokensList = <<>> THEN 0 ELSE Len(Head(tokensList)) + TotalLength(Tail(tokensList))

\* idf * tfNorm for query token qt and the tokens of one chunk, in
\* millionths.  With k1 = 1.5, b = 0.75 and avgDl = total / N:
\*   idf    = log((N - df + 0.5) / (df + 0.5) + 1) = log((2N + 2) / (2 df + 1))
\*   tfNorm = 2.5 tf / (tf + 1.5 (0.25 + 0.75 dl N / total))
\*          = 20 tf total / (8 tf total + 3 total + 9 dl N)
TermScore(qt, tokens, tokensList) ==
  LET N     == Len(tokensList)
      df    == DocFreq(tokensList, qt)
      tf    == Occurrences(tokens, qt)
      dl    == Len(tokens)
      total == TotalLength(tokensList)
  IN  IF tf = 0 THEN 0
      ELSE MulDiv(MathLog(2 * N + 2, 2 * df + 1),
                  20 * tf * total, 8 * tf * total + 3 * total + 9 * dl * N)
             \div (LogUnit \div ScoreUnit)

\* The loop over qTokens for one chunk, from query token j on.
RECURSIVE ChunkScore(_, _, _, _)
ChunkScore(qTokens, j, tokens, tokensList) ==
  IF j > Len(qTokens) THEN 0
  ELSE TermScore(qTokens[j], tokens, tokensList)
         + ChunkScore(qTokens, j + 1, tokens, tokensList)

\* chunks.map(c => tokenize(c))
chunkTokensList(chunks) == <<>> \o [i \in 1..Len(chunks) |-> tokenize(chunks[i])]

\* The tokens tokenize can give that name a property of Object.prototype:
\* tf and df are object literals ({}), so that tf[t] and df[t] are the
\* inherited function for such a token t, whether or not t occurs.
ObjectPrototypeKeys == { <<"c", "o", "n", "s", "t", "r", "u", "c", "t", "o", "r">> }

\* The score of every chunk is NaN: for a query token qt that is a key of
\* Object.prototype, !tf[qt] is false in every chunk, and N - df[qt] and
\* tf[qt] * (k1 + 1) are NaN (df[qt] and tf[qt] are a function, or the
\* string that "+ 1" made of it); NaN absorbs the sum.
ScoresAreNaN(qTokens) == \E j \in 1..Len(qTokens) : qTokens[j] \in ObjectPrototypeKeys

\* What the score of a chunk is computed from, besides the numbers that are
\* the same for every chunk of the call (N, avgDl): df[qt] and tf[qt] of
\* the query tokens the loop adds a term for, in turn, and tokens.length.
RECURSIVE TermsFrom(_, _, _, _)
TermsFrom(qTokens, j, tokens, tokensList) ==
  IF j > Len(qTokens) THEN <<>>
  ELSE (IF Occurrences(tokens, qTokens[j]) = 0 THEN <<>>
        ELSE << [df |-> DocFreq(tokensList, qTokens[j]),
                 tf |-> Occurrences(tokens, qTokens[j])] >>)
       \o TermsFrom(qTokens, j + 1, tokens, tokensList)

Profile(qTokens, i, tokensList) ==
  [terms |-> TermsFrom(qTokens, 1, tokensList[i], tokensList), dl |-> Len(tokensList[i])]

\* The score of the double arithmetic is above the score in millionths
\* rounded down by less than ScoreTol millionths for each term added.
ScoreTol == 2

\* Per chunk, its profile and its score in millionths, rounded down.
floorScores(qTokens, tokensList) ==
  <<>> \o [i \in 1..Len(tokensList) |->
            [profile |-> Profile(qTokens, i, tokensList),
             score   |-> ChunkScore(qTokens, 1, tokensList[i], tokensList)]]

\* The profiles whose order the rounding of the double arithmetic decides:
\* two profiles, each with a term, whose scores rounded down are within
\* the error of the rounding (tol).
RoundingDecides(floors, tol) ==
  { floors[i].profile : i \in
      { i \in 1..Len(floors) :
          /\ floors[i].profile.terms # <<>>
          /\ \E j \in 1..Len(floors) :
               /\ floors[j].profile # floors[i].profile
               /\ floors[j].profile.terms # <<>>
               /\ floors[i].score - floors[j].score <= tol
               /\ floors[j].score - floors[i].score <= tol } }

\* What the rounding can add to the score of each profile.
RoundingBound(floors, tol) ==
  LET decided == RoundingDecides(floors, tol)
  IN  [p \in { floors[i].profile : i \in 1..Len(floors) } |->
         IF p \in decided THEN ScoreTol * Len(p.terms) ELSE 0]

\* What the double arithmetic (Math.log is implementation-approximated,
\* the sum is rounded term by term) can add to the scores rounded down,
\* per profile: the same computation gives the same double, the sum of no
\* term is exactly 0, and the excess is kept where it can decide an order.
Roundings(qTokens, tokensList) ==
  LET bound == RoundingBound(floorScores(qTokens, tokensList), ScoreTol * Len(qTokens))
  IN  { r \in [DOMAIN bound -> 0..(ScoreTol * Len(qTokens))] :
          \A p \in DOMAIN bound : r[p] <= bound[p] }

\* chunkTokensList.map((tokens, i) => ...): per chunk, its index and score,
\* for the rounding r of the double arithmetic.
\* A NaN score is kept as nan with the number 0: the comparator of the sort
\* gives NaN for such scores, which sort takes as 0 (equal), and the scores
\* of one call are NaN all together.
scoresOf(qTokens, tokensList, r) ==
  <<>> \o [i \in 1..Len(tokensList) |->
            [index |-> i,
             nan   |-> ScoresAreNaN(qTokens),
             score |-> IF ScoresAreNaN(qTokens) THEN 0
                       ELSE ChunkScore(qTokens, 1, tokensList[i], tokensList)
                              + r[Profile(qTokens, i, tokensList)]]]

scores(query, chunks, r) == scoresOf(tokenize(query), chunkTokensList(chunks), r)
\* Insert that puts e before the entries of equal score.
InsertBeforeEqual(sorted, e) ==
  LET n == Cardinality({ i \in 1..Len(sorted) : sorted[i].score > e.score })
  IN  SubSeq(sorted, 1, n) \o <<e>> \o SubSeq(sorted, n + 1, Len(sorted))

\* Array.prototype.sort((a, b) => b.score - a.score) is stable: an entry
\* goes after the entries sorted so far whose score is not smaller.
Insert(sorted, e) ==
  LET n == Cardinality({ i \in 1..Len(sorted) : sorted[i].score >= e.score })
  IN  SubSeq(sorted, 1, n) \o <<e>> \o SubSeq(sorted, n + 1, Len(sorted))

RECURSIVE sort(_, _, _)
sort(list, i, sorted) ==
  IF i > Len(list) THEN sorted ELSE sort(list, i + 1, Insert(sorted, list[i]))
\* ranked without the cut at k.
rankedUncut(query, chunks, k, r) ==
  IF Len(chunks) = 0 THEN <<>>
  ELSE sort(scores(query, chunks, r), 1, <<>>)

\* scores.sort(...).slice(0, k), for k >= 0.
ranked(query, chunks, k, r) ==
  IF Len(chunks) = 0 THEN <<>>
  ELSE slice(sort(scores(query, chunks, r), 1, <<>>), k)

TopChunks(top, chunks) == <<>> \o [i \in 1..Len(top) |-> chunks[top[i].index]]

scoreBM25(query, chunks, k, r) == TopChunks(ranked(query, chunks, k, r), chunks)

\* The chunks scoreBM25 is applied to.
RankChunks ==
  { <<"b", "b", "b">>,
    <<"b", "b", "b", " ", "b", "b", "b", ".", " ", "B", "B", "B">>,
    <<"a", "a", "a", " ", "a", "a", "a", " ", "A", "A", "A">>,
    <<"A", "a", "a", ",", "b", "b", "b", ".">>,
    <<"a", "a", "a", " ", "a", "a", "a", " ", "a", "a", "a", " ", "c", "c", "c", " ",
      "z", "z", "\n", "c", "c", "c", " ", "c", "c", "c", " ", "c", "c", "c">>,
    <<"z", "z", " ", "9">> }

\* The queries scoreBM25 is applied with.
RankQueries ==
  { <<>>,
    <<"z", "z", " ", "!">>,
    <<"a", "a", "a">>,
    <<"B", "b", "b", " ", "a", "a", "a">>,
    <<"c", "o", "n", "s", "t", "r", "u", "c", "t", "o", "r", " ", "b", "b", "b">> }

\* A query and chunks of equal length in which its tokens occur as often
\* in all, in different places: the scores are sums of the same terms in
\* different orders.
NearTieQuery == <<"a", "a", "a", " ", "b", "b", "b", " ", "c", "c", "c">>

NearTieChunks ==
  { <<"a", "a", "a", " ", "b", "b", "b", " ", "b", "b", "b", " ", "c", "c", "c">>,
    <<"a", "a", "a", " ", "b", "b", "b", " ", "c", "c", "c", " ", "c", "c", "c">> }

RankInputs ==
  { [fn |-> "scoreBM25", query |-> q, chunks |-> c, k |-> k] :
      q \in RankQueries,
      c \in UNION { [1..n -> RankChunks] : n \in 0..MaxChunks },
      k \in 0..(MaxChunks + 1) }
  \cup
  { [fn |-> "scoreBM25", query |-> NearTieQuery, chunks |-> c, k |-> k] :
      c \in UNION { [1..n -> NearTieChunks] : n \in 0..MaxChunks },
      k \in 0..(MaxChunks + 1) }

RankInit ==
  /\ HandlerInit
  /\ args \in RankInputs
  /\ ret = NoRet

\* scoreBM25(query, chunks, k) is called and returns.
CallScoreBM25 ==
  /\ args.fn = "scoreBM25" /\ ret = NoRet
  /\ \E r \in Roundings(tokenize(args.query), chunkTokensList(args.chunks)) :
       ret' = [fn     |-> "scoreBM25",
               scores |-> scores(args.query, args.chunks, r),
               topK   |-> scoreBM25(args.query, args.chunks, args.k, r)]
  /\ UNCHANGED <<args, handler, page>>

RankNext == CallScoreBM25

RankSpec == RankInit /\ [][RankNext]_vars

\* ------------------------------------------------------------------------
\* stripMarkdown on its own
\* ------------------------------------------------------------------------

\* The characters of the texts stripMarkdown is applied to.
MarkChars == {"#", "*", "a", " ", "\n"}

StripInputs ==
  { [fn |-> "stripMarkdown", text |-> t] : t \in Texts(MarkChars, MaxMarkLen) }

StripInit ==
  /\ HandlerInit
  /\ args \in StripInputs
  /\ ret = NoRet

\* stripMarkdown(text) is called and returns.
CallStripMarkdown ==
  /\ args.fn = "stripMarkdown" /\ ret = NoRet
  /\ ret' = [fn |-> "stripMarkdown", text |-> stripMarkdown(args.text)]
  /\ UNCHANGED <<args, handler, page>>

StripNext == CallStripMarkdown

StripSpec == StripInit /\ [][StripNext]_vars

\* ------------------------------------------------------------------------
\* sanitizeMapping on its own, on explanations made of separated items
\* ------------------------------------------------------------------------

\* The items of a generated explanation (plain text, as the prompt asks).
ItemTexts == { <<"x">>, <<"y", " ", "z">>, <<"1", ".", "\n", "w">> }

\* What stands between two items: a line of three dashes, one with a blank
\* line before it, a line of four dashes.
Separators ==
  { <<"\n", "-", "-", "-", "\n">>,
    <<"\n", "\n", "-", "-", "-", "\n">>,
    <<"\n", "-", "-", "-", "-", "\n">> }

MappingInputs ==
  { [fn |-> "sanitizeMapping", text |-> join(items, sep)] :
      items \in UNION { [1..n -> ItemTexts] : n \in 1..MaxItems }, sep \in Separators }

MappingInit ==
  /\ HandlerInit
  /\ args \in MappingInputs
  /\ ret = NoRet

\* sanitizeMapping(mapping) is called and returns.
CallSanitizeMapping ==
  /\ args.fn = "sanitizeMapping" /\ ret = NoRet
  /\ ret' = [fn |-> "sanitizeMapping", text |-> sanitizeMapping(args.text)]
  /\ UNCHANGED <<args, handler, page>>

MappingNext == CallSanitizeMapping

MappingSpec == MappingInit /\ [][MappingNext]_vars

\* ------------------------------------------------------------------------
\* The input page: handleGenerate and its progress interval
\* ------------------------------------------------------------------------

\* The texts typed into the ER notes field.
ErTextsTyped == {<<>>, <<" ">>, <<"n">>}

\* The state of the form: erMode, erText, and whether a file is set in
\* erFile, hpFile, mcgFile.
Forms ==
  [erMode : {"upload", "text"}, erFile : BOOLEAN, erText : ErTextsTyped,
   hpFile : BOOLEAN, mcgFile : BOOLEAN]

\* The input checks of handleGenerate: the message set, "" when they pass.
InputCheck(f) ==
  IF f.erMode = "upload" /\ ~f.erFile THEN "ER Notes PDF is required."
  ELSE IF f.erMode = "text" /\ trim(f.erText) = <<>> THEN "ER Notes text is required."
  ELSE IF ~f.hpFile THEN "Inpatient H&P PDF is required."
  ELSE IF ~f.mcgFile THEN "MCG Guideline PDF is required."
  ELSE ""

\* PROGRESS_STEPS.length - 1
LastProgressStep == 5

\* The message of the NotReadableError of a file that cannot be read.
ReadMsg ==
  "The requested file could not be read, typically due to permission problems that have occurred after a reference to a file was acquired."
InvokeMsg == "Edge Function returned a non-2xx status code"
ShapeMsg == "Invalid response shape from backend."
OnlyPdfMsg == "Only PDF files are accepted."
\* The message of the NotFoundError of a file deleted after it was chosen.
NotFoundMsg ==
  "A requested file or directory could not be found at the time an operation was processed."
\* The message of the QuotaExceededError of localStorage.setItem.
QuotaMsg ==
  "Failed to execute 'setItem' on 'Storage': Setting the value of 'clinical_result' exceeded the quota."
ProcessingMsg == "An error occurred while processing."

\* The texts that are not JSON which invoke resolves with.
NotJsonTexts == {"", "not json", "<html>", "{"}

\* The messages of the SyntaxError JSON.parse(text) throws; for "{" the
\* message is with or without the line and column, by the engine's version.
ParseMsg(text) ==
  IF text = "" THEN {"Unexpected end of JSON input"}
  ELSE IF text = "not json" THEN {"Unexpected token 'o', \"not json\" is not valid JSON"}
  ELSE IF text = "<html>" THEN {"Unexpected token '<', \"<html>\" is not valid JSON"}
  ELSE {"Expected property name or '}' in JSON at position 1",
        "Expected property name or '}' in JSON at position 1 (line 1 column 2)"}

\* What supabase.functions.invoke resolves to: an error (fnError), a text
\* that is not JSON, a body with an error field, a body without a narrative,
\* a gap list or an explanation, a complete result.
InvokeOutcomes == {"fnError", "notJson", "errorBody", "badShape", "result"}

\* The messages of what is thrown after invoke has resolved with outcome o
\* (none for a result); "" when what is thrown has no message: an fnError
\* without one, new Error(parsed.error) for an error field such as [].
InvokeError(o) ==
  IF o = "fnError" THEN {InvokeMsg, ""}
  ELSE IF o = "notJson" THEN UNION { ParseMsg(t) : t \in NotJsonTexts }
  ELSE IF o = "errorBody" THEN {IncompleteMsg, ""}
  ELSE IF o = "badShape" THEN {ShapeMsg}
  ELSE {}

\* catch (err) { setError(err.message || "An error occurred while
\* processing.") } finally { setIsProcessing(false) }.  setError is that of
\* the instance that started the run: it shows nothing once that instance
\* is unmounted.
CatchFinally(message) ==
  /\ error' = IF ~runMounted THEN error
              ELSE IF message = "" THEN ProcessingMsg ELSE message
  /\ isProcessing' = FALSE
  /\ genPc' = "idle"
  /\ runMounted' = FALSE

\* The file inputs of the form (that of the ER notes is there in upload
\* mode) and the state each sets.
FileInputs == {"erFile", "hpFile", "mcgFile"}

\* The onChange of a file input (disabled while isProcessing), for what
\* was chosen: no file, a file that is not a PDF, a PDF.
HandlePdfSelect ==
  /\ mounted /\ ~isProcessing
  /\ \E input \in FileInputs, selected \in {"none", "other", "pdf"} :
       /\ input = "erFile" => form.erMode = "upload"
       /\ IF selected = "none" THEN UNCHANGED <<error, form>>
          ELSE IF selected = "other"
          THEN error' = OnlyPdfMsg /\ UNCHANGED form
          ELSE error' = "" /\ form' = [form EXCEPT ![input] = TRUE]
  /\ UNCHANGED <<args, ret, handler, genPc, isProcessing, progressStep, result, intervals,
                 progressInterval, runs, mounted, runMounted>>

\* The onValueChange of the radio group and the onChange of the text field
\* (both disabled while isProcessing; the text field is there in text mode).
EditErNotes ==
  /\ mounted /\ ~isProcessing
  /\ \/ \E v \in {"upload", "text"} : v # form.erMode /\ form' = [form EXCEPT !.erMode = v]
     \/ /\ form.erMode = "text"
        /\ \E t \in ErTextsTyped : form' = [form EXCEPT !.erText = t]
  /\ UNCHANGED <<args, ret, handler, genPc, isProcessing, progressStep, error, result,
                 intervals, progressInterval, runs, mounted, runMounted>>

\* The button is pressed (it is disabled while isProcessing): the input
\* checks, and when they pass the run up to its first await.
HandleGenerate ==
  /\ mounted /\ genPc = "idle" /\ ~isProcessing /\ runs < MaxRuns
  /\ IF InputCheck(form) # ""
     THEN /\ error' = InputCheck(form)
          /\ UNCHANGED <<genPc, isProcessing, progressStep, intervals, progressInterval, runs,
                         runMounted>>
     ELSE /\ error' = ""
          /\ isProcessing' = TRUE
          /\ progressStep' = 0
          /\ runs' = runs + 1
          /\ progressInterval' = runs + 1
          /\ intervals' = intervals \cup {runs + 1}
          /\ genPc' = IF form.erMode = "text" THEN "encodeHp" ELSE "encodeEr"
          /\ runMounted' = TRUE
  /\ UNCHANGED <<args, ret, handler, result, form, mounted>>

\* await fileToBase64(file) settles: the next statement, or the catch block
\* (with the message of the rejection, "" when it has none).
EncodeFile ==
  /\ genPc \in {"encodeEr", "encodeHp", "encodeMcg"}
  /\ \E read \in BOOLEAN :
       IF read
       THEN /\ genPc' = IF genPc = "encodeEr" THEN "encodeHp"
                        ELSE IF genPc = "encodeHp" THEN "encodeMcg" ELSE "invoke"
            /\ UNCHANGED <<error, isProcessing, runMounted>>
       ELSE \E message \in {ReadMsg, NotFoundMsg, ""} : CatchFinally(message)
  /\ UNCHANGED <<args, ret, handler, progressStep, result, intervals, progressInterval, runs,
                 form, mounted>>

\* await supabase.functions.invoke(...) resolves: the interval is cleared,
\* then what the checks throw is caught, or the result is set.  setResult
\* sets the state and saves the result with localStorage.setItem: when
\* that throws, the catch block runs; otherwise navigate("/clinical-output")
\* leaves the route of ClinicalInput, whose instance, if one is mounted, is
\* unmounted and its state discarded.
InvokeReturns ==
  /\ genPc = "invoke"
  /\ intervals' = intervals \ {progressInterval}
  /\ \E o \in InvokeOutcomes, saved \in BOOLEAN :
       IF o = "result" /\ saved
       THEN /\ result' = TRUE
            /\ isProcessing' = FALSE
            /\ genPc' = "idle"
            /\ runMounted' = FALSE
            /\ mounted' = FALSE
            /\ form' = InitialForm
            /\ error' = ""
       ELSE IF o = "result"
       THEN /\ result' = TRUE
            /\ CatchFinally(QuotaMsg)
            /\ UNCHANGED <<mounted, form>>
       ELSE /\ \E message \in InvokeError(o) : CatchFinally(message)
            /\ UNCHANGED <<result, mounted, form>>
  /\ UNCHANGED <<args, ret, handler, progressStep, progressInterval, runs>>

\* The callback of an interval that was set and not cleared runs.
ProgressTick ==
  /\ \E t \in intervals :
       progressStep' = IF progressStep + 1 <= LastProgressStep THEN progressStep + 1
                       ELSE LastProgressStep
  /\ UNCHANGED <<args, ret, handler, genPc, isProcessing, error, result, intervals,
                 progressInterval, runs, form, mounted, runMounted>>

\* Another route is shown (a link of the header, signing out, the back
\* button): ClinicalInput is unmounted and its state (the form, error) is
\* discarded; the state of ClinicalProvider, a run in progress and its
\* interval go on.
Unmount ==
  /\ mounted
  /\ mounted' = FALSE
  /\ runMounted' = FALSE
  /\ form' = InitialForm
  /\ error' = ""
  /\ UNCHANGED <<args, ret, handler, genPc, isProcessing, progressStep, result, intervals,
                 progressInterval, runs>>

\* The route /clinical-input is shown again: ClinicalInput mounts with its
\* initial state.
Mount ==
  /\ ~mounted
  /\ mounted' = TRUE
  /\ UNCHANGED <<args, ret, handler, genPc, isProcessing, progressStep, error, result,
                 intervals, progressInterval, runs, form, runMounted>>

PageNext ==
  \/ HandlePdfSelect
  \/ EditErNotes
  \/ HandleGenerate
  \/ EncodeFile
  \/ InvokeReturns
  \/ ProgressTick
  \/ Unmount
  \/ Mount

PageSpec == Init /\ [][PageNext]_vars

\* ------------------------------------------------------------------------
\* "Enforce limits" on its own, on texts around the two limits
\* ------------------------------------------------------------------------

\* The text of n characters c.
Fill(c, n) == [i \in 1..n |-> c]

\* Lengths of the ER text and of the H&P text, and of the guideline text.
ErLens    == {1, MAX_NOTES_CHARS \div 2 - 1, MAX_NOTES_CHARS - 3, MAX_NOTES_CHARS - 2,
              MAX_NOTES_CHARS + 1}
HpLens    == {1, MAX_NOTES_CHARS \div 2 - 1, MAX_NOTES_CHARS \div 2, MAX_NOTES_CHARS - 2,
              MAX_NOTES_CHARS + 1}
GuideLens == {1, MAX_GUIDELINE_CHARS - 1, MAX_GUIDELINE_CHARS, MAX_GUIDELINE_CHARS + 1}

LimitInputs ==
  { [fn |-> "limits", er |-> Fill("e", n1), hp |-> Fill("h", n2),
     mcg |-> <<"G">> \o Fill("g", n3 - 1)] :
      n1 \in ErLens, n2 \in HpLens, n3 \in GuideLens }

LimitInit ==
  /\ HandlerInit
  /\ args \in LimitInputs
  /\ ret = NoRet

\* const sourceNotes = ...; if (mcgText.length > MAX_GUIDELINE_CHARS) ...
EnforceLimits ==
  /\ args.fn = "limits" /\ ret = NoRet
  /\ ret' = [fn |-> "limits", sourceNotes |-> EnforceNotes(args.er, args.hp),
             mcgText |-> EnforceGuideline(args.mcg)]
  /\ UNCHANGED <<args, handler, page>>

LimitNext == EnforceLimits

LimitSpec == LimitInit /\ [][LimitNext]_vars

\* ------------------------------------------------------------------------
\* Properties
\* ------------------------------------------------------------------------

\* The gap list handed to the mapping prompt: the handler does not change
\* missingCriteria from the mapping call to the self-audit stage.
MappedCriteria == IF call["audit"] = "idle" THEN missingCriteria ELSE pre.missing_criteria

\* The response that returns the sanitized pre-audit outputs.
PreAuditSuccess ==
  SuccessResponse(sanitizeHPI(pre.revised_hpi), sanitizeCriteria(pre.missing_criteria),
                  sanitizeMapping(pre.mapping_explanation))

\* The self-audit response was read and gave a value with a mapping explanation.
AuditApplied ==
  audited.got /\ Truthy(audited.value) /\ audited.value.mapping_explanation # <<>>

\* C1: when the self-audit call fails at the network level or is aborted by
\* its timeout, and the earlier stages gave a narrative and an explanation,
\* the request returns the success response made of the sanitized
\* pre-audit outputs.
C1_AuditNetworkFailureFallsBack ==
  ( /\ call["audit"] \in {"neterr", "aborted"}
    /\ pre.revised_hpi # <<>>
    /\ pre.mapping_explanation # <<>> )
  => response = PreAuditSuccess

\* C2: once the request is answered, if one of the two concurrent calls got
\* a 429 or 402 response, the answer is the rate-limit or quota response of
\* such a call.
C2_QuotaSignalSurfacedFromPair ==
  ( /\ pc = "done"
    /\ \E c \in {"hpi", "criteria"} : call[c] = "headers" /\ Handled(httpStatus[c]) )
  => \E c \in {"hpi", "criteria"} :
       /\ call[c] = "headers" /\ Handled(httpStatus[c])
       /\ response = handleAIStatus(httpStatus[c])

\* C3: when the facts response does not pass the facts parse test, the
\* request has ended with the facts-extraction error, and the facts call is
\* the only generation call issued.
C3_FactsParseFailureAborts ==
  parsed["facts"] = "fail"
  => /\ pc = "done"
     /\ response = errorResponse(FactsMsg, 500)
     /\ Len(calls) = 1 /\ calls[1].stage = "facts"

C3_Witness == parsed["facts"] = "fail"

\* C4: a 429 or 402 response to the facts call, the retry call, the mapping
\* call or the self-audit call ends the request with the error response of
\* that status, and no further call is issued after it.
C4_QuotaOutsidePairEndsRequest ==
  \A c \in {"facts", "retry", "mapping", "audit"} :
    (call[c] = "headers" /\ Handled(httpStatus[c]))
    => /\ pc = "done"
       /\ response = handleAIStatus(httpStatus[c])
       /\ calls[Len(calls)].stage = c

\* C5: when the first gap-analysis response does not pass the parse test,
\* exactly one retry call is issued, with temperature 0, right after the
\* concurrent pair; when the retry response does not pass it either, the
\* mapping call is issued and the gap list handed to it is empty.
C5_RetryOnceThenEmptyList ==
  /\ parsed["criteria"] = "fail"
     => /\ Cardinality({i \in 1..Len(calls) : calls[i].stage = "retry"}) = 1
        /\ Len(calls) >= 4 /\ calls[4] = [stage |-> "retry", temperature |-> 0]
  /\ parsed["retry"] = "fail"
     => /\ parsed["criteria"] = "fail"
        /\ Len(calls) >= 5 /\ calls[5].stage = "mapping"
        /\ MappedCriteria = <<>>

C5_Witness ==
  parsed["criteria"] = "fail" /\ parsed["retry"] = "fail" /\ call["mapping"] = "pending"

\* C6: every gap entry of a success response has a clause that is not
\* blank (not empty, not white space only).
C6_GapClausesNonBlank ==
  response.kind = "success"
  => \A i \in 1..Len(response.missing_criteria) :
       trim(response.missing_criteria[i].mcg_clause) # <<>>

\* C7: every gap entry of a success response has one of the three statuses.
C7_GapStatusesValid ==
  response.kind = "success"
  => \A i \in 1..Len(response.missing_criteria) :
       response.missing_criteria[i].status \in validStatuses

C7_Witness ==
  /\ response.kind = "success"
  /\ Len(response.missing_criteria) > 0
  /\ audited.got /\ audited.value.missing_criteria.isArray
  /\ parsed["retry"] = "ok"

\* C8 as claimed: when the self-audit response gives a value with a mapping
\* explanation, narrative, gap list and explanation of the success response
\* are all those of the audit value (sanitized, the list filtered).
C8_AuditReplacesAllOutputs ==
  (response.kind = "success" /\ AuditApplied)
  => response =
       SuccessResponse(sanitizeHPI(audited.value.revised_hpi),
                       sanitizeCriteria(filterCriteria(audited.value.missing_criteria.items)),
                       sanitizeMapping(audited.value.mapping_explanation))

\* C8 as amended: when the self-audit response gives a value with a mapping
\* explanation, the explanation of the success response is the audit's;
\* the narrative is the audit's when the audit value carries a non-empty
\* one and the pre-audit narrative otherwise; the gap list is the audit's
\* (filtered) when the audit value carries a list and the pre-audit list
\* otherwise; all sanitized.
C8_AuditReplacesPerField ==
  (response.kind = "success" /\ AuditApplied)
  => response =
       SuccessResponse(
         sanitizeHPI(IF audited.value.revised_hpi # <<>>
                     THEN audited.value.revised_hpi ELSE pre.revised_hpi),
         sanitizeCriteria(IF audited.value.missing_criteria.isArray
                          THEN filterCriteria(audited.value.missing_criteria.items)
                          ELSE pre.missing_criteria),
         sanitizeMapping(audited.value.mapping_explanation))

C8_Witness ==
  /\ response.kind = "success" /\ AuditApplied
  /\ audited.value.revised_hpi # <<>>
  /\ audited.value.revised_hpi # pre.revised_hpi
  /\ ~audited.value.missing_criteria.isArray
  /\ pre.missing_criteria # <<>>

\* C9: every request is eventually answered.
C9_EveryRequestAnswered == <>(response.kind # "none")

\* C10: a step in which the abort timer of a generation call fires while
\* the handler waits on that call ends the request with the timed-out
\* error, status 504.
C10_TimeoutGivesTimedOutError ==
  [][\A c \in Stages :
       (call[c] = "pending" /\ pc = WaitPc(c) /\ call'[c] = "aborted")
       => (pc' = "done" /\ response' = errorResponse(TimeoutMsg, 504))]_vars

C10_Witness == call["audit"] = "aborted"

\* A generation call that has failed: a network error, a timeout, or a
\* response whose status is not a success status.
Failed(c) ==
  \/ call[c] \in {"neterr", "aborted"}
  \/ call[c] = "headers" /\ ~(httpStatus[c] \in 200..299)

\* The stages of the calls issued so far, in order.
IssuedStages == [i \in 1..Len(calls) |-> calls[i].stage]

\* The calls whose fetch has not settled.
InFlight == { c \in Stages : call[c] = "pending" }

IsPrefix(s, t) == Len(s) <= Len(t) /\ \A i \in 1..Len(s) : s[i] = t[i]

\* The extraction outcomes that give no text.
NoTextOutcomes == {"undecodable", "misencoded", "unparseable", "empty"}

\* C11: as soon as one of the two concurrent calls has failed (error
\* status, network error or timeout), the handler no longer waits for the
\* sibling call: it is not suspended at the join.
C11_FirstFailureShortCircuitsJoin ==
  \A c \in {"hpi", "criteria"} : Failed(c) => pc # "join"

\* C12: when the narrative call has answered 429 or 402 and the
\* gap-analysis call has answered with a success status, the request has
\* ended with the response of that status, which carries nothing of the
\* gap analysis, and no call after the pair has been issued.
C12_NarrativeQuotaDiscardsGapResult ==
  ( /\ call["hpi"] = "headers" /\ httpStatus["hpi"] \in {429, 402}
    /\ call["criteria"] = "headers" /\ httpStatus["criteria"] \in 200..299 )
  => /\ pc = "done"
     /\ response = errorResponse(IF httpStatus["hpi"] = 429 THEN RateLimitMsg
                                 ELSE PaymentMsg, httpStatus["hpi"])
     /\ response.missing_criteria = <<>>
     /\ IssuedStages = <<"facts", "hpi", "criteria">>

C12_Witness ==
  /\ call["hpi"] = "headers" /\ httpStatus["hpi"] = 402
  /\ call["criteria"] = "headers" /\ httpStatus["criteria"] = 200

\* C13: a success response is returned only when the facts, narrative,
\* gap-analysis and mapping calls have each answered with a success status
\* and the facts text has parsed; when one of them has failed, the response
\* carries none of the three result fields.
C13_SuccessNeedsEveryStage ==
  /\ response.kind = "success"
       => /\ \A c \in {"facts", "hpi", "criteria", "mapping"} :
               call[c] = "headers" /\ httpStatus[c] \in 200..299
          /\ parsed["facts"] = "ok"
  /\ ( \/ \E c \in {"facts", "hpi", "criteria", "mapping"} : Failed(c)
       \/ parsed["facts"] = "fail" )
       => /\ response.kind # "success"
          /\ response.revised_hpi = <<>>
          /\ response.missing_criteria = <<>>
          /\ response.mapping_explanation = <<>>

C13_Witness ==
  /\ response.kind = "success"
  /\ call["retry"] = "headers" /\ httpStatus["retry"] = 500

\* C14: when a generation call has been issued, the request has passed
\* every required-field check and the three input texts have been obtained
\* without error; a request answered 400, or one of whose documents gave
\* no text, has issued no call.
C14_NoCallBeforeValidationAndExtraction ==
  /\ calls # <<>>
       => /\ req.method = "POST" /\ req.json
          /\ req.erText # <<>> \/ req.erPdfBase64
          /\ req.hpPdfBase64 /\ req.mcgPdfBase64
          /\ extraction["ER Notes"] \in {"pasted", "text"}
          /\ extraction["H&P"] = "text"
          /\ extraction["MCG Guideline"] = "text"
  /\ ( \/ response.status = 400
       \/ \E l \in Labels : extraction[l] \in NoTextOutcomes )
       => calls = <<>>

C14_Witness ==
  /\ calls # <<>>
  /\ \A l \in Labels : extraction[l] = "text"

\* C15: a POST request whose body lacks the ER note (neither text nor
\* document), the H&P or the guideline is answered 400 with the message of
\* an input that is missing; nothing is extracted and no call is issued.
C15_MissingInputGets400 ==
  ( /\ req.method = "POST" /\ pc # "readBody"
    /\ \/ req.erText = <<>> /\ ~req.erPdfBase64
       \/ ~req.hpPdfBase64
       \/ ~req.mcgPdfBase64 )
  => /\ pc = "done"
     /\ response.kind = "error" /\ response.status = 400
     /\ \/ response.error = ErRequiredMsg /\ req.erText = <<>> /\ ~req.erPdfBase64
        \/ response.error = HpRequiredMsg /\ ~req.hpPdfBase64
        \/ response.error = McgRequiredMsg /\ ~req.mcgPdfBase64
     /\ calls = <<>>
     /\ \A l \in Labels : extraction[l] = "none"

\* C16: when a document could not be converted to text (undecodable
\* payload, unparseable document, no text in it), the request has ended
\* with the error message that names that document.
C16_ExtractionFailureNamesDocument ==
  \A l \in Labels :
    extraction[l] \in NoTextOutcomes
      => (pc = "done" /\ response.kind = "error" /\ response.error = ExtractMsg(l))

\* C17: once the texts are extracted (a generation call has been issued),
\* the ER text, the H&P text and the guideline text are non-empty.
C17_ExtractedTextsNonEmpty ==
  calls # <<>> => (erNotesText # <<>> /\ hpText # <<>> /\ mcgText # <<>>)

\* C18: a facts text that parses to a JSON object never ends the request
\* with the facts-extraction failure.
C18_WellFormedFactsNeverAbort ==
  factsObj.kind = "object" => (parsed["facts"] # "fail" /\ response.error # FactsMsg)

\* C19: the calls are issued in the fixed order facts, narrative and
\* gap-analysis, retry (if any), mapping, self-audit; a stage's calls are
\* issued only when the calls before it have been answered; and two calls
\* are in flight together only for the narrative and gap-analysis pair.
C19_CallsInFixedOrder ==
  /\ \/ IsPrefix(IssuedStages, <<"facts", "hpi", "criteria", "mapping", "audit">>)
     \/ IsPrefix(IssuedStages, <<"facts", "hpi", "criteria", "retry", "mapping", "audit">>)
  /\ (call["hpi"] # "idle" \/ call["criteria"] # "idle")
       => (call["facts"] = "headers" /\ parsed["facts"] = "ok")
  /\ (call["retry"] # "idle" \/ call["mapping"] # "idle")
       => (call["hpi"] = "headers" /\ call["criteria"] = "headers")
  /\ (call["retry"] # "idle" /\ call["mapping"] # "idle") => call["retry"] = "headers"
  /\ call["audit"] # "idle" => call["mapping"] = "headers"
  /\ Cardinality(InFlight) <= 1 \/ InFlight = {"hpi", "criteria"}

C19_Witness ==
  /\ call["audit"] = "pending"
  /\ call["retry"] = "headers"

\* C20: at most six calls are issued, no stage's call more than once (the
\* retry included), so that no call is issued again after it has failed.
C20_AtMostSixCallsNoReissue ==
  /\ Len(calls) <= 6
  /\ \A i, j \in 1..Len(calls) : i # j => calls[i].stage # calls[j].stage
  /\ \A c \in Stages :
       Failed(c) => Cardinality({ i \in 1..Len(calls) : calls[i].stage = c }) = 1

C20_Witness ==
  /\ Len(calls) = 6
  /\ Failed("retry") /\ Failed("audit")

\* C21: the note text handed to the generation calls is the head of
\* (ER text, blank line, H&P text), cut at 15000 characters, and the
\* guideline text handed to the chunker is the head of the extracted
\* guideline text, cut at 80000 characters.
C21_TextsAreBoundedPrefixes ==
  ret.fn = "limits"
  => LET full == args.er \o <<"\n", "\n">> \o args.hp
     IN  /\ IsPrefix(ret.sourceNotes, full)
         /\ Len(ret.sourceNotes) = IF Len(full) < 15000 THEN Len(full) ELSE 15000
         /\ IsPrefix(ret.mcgText, args.mcg)
         /\ Len(ret.mcgText) = IF Len(args.mcg) < 80000 THEN Len(args.mcg) ELSE 80000

C21_Witness ==
  /\ ret.fn = "limits"
  /\ Len(args.er) < 15000 /\ Len(args.er) + 2 + Len(args.hp) > 15000
  /\ Len(args.mcg) > 80000

\* The characters of the texts of seq, in order, white space left out.
RECURSIVE Squeeze(_)
Squeeze(s) ==
  IF s = <<>> THEN <<>>
  ELSE (IF s[1] \in WhiteSpace THEN <<>> ELSE <<s[1]>>) \o Squeeze(Tail(s))

RECURSIVE Concat(_)
Concat(seq) == IF seq = <<>> THEN <<>> ELSE Head(seq) \o Concat(Tail(seq))

\* C22: the chunks of chunkText, concatenated in order, hold the
\* non-whitespace characters of the input, each once and in the same order.
C22_ChunksKeepEveryCharacter ==
  ret.fn = "chunkText" => Squeeze(Concat(ret.chunks)) = Squeeze(args.text)

C22_Witness ==
  /\ ret.fn = "chunkText"
  /\ Len(ret.chunks) >= 3
  /\ \E i \in 1..Len(args.text) : args.text[i] = "."

\* C23: at most one chunk of a call of chunkText is longer than
\* 1.2 * maxLen.
C23_AtMostOneOversizedChunk ==
  ret.fn = "chunkText"
  => Cardinality({ i \in 1..Len(ret.chunks) :
                     5 * Len(ret.chunks[i]) > 6 * args.maxLen }) <= 1

\* C24: chunkText (1 <= minLen <= maxLen) returns no empty chunk, and no
\* chunk at all for a text that is empty or only white space.
C24_NoEmptyChunk ==
  ret.fn = "chunkText"
  => /\ \A i \in 1..Len(ret.chunks) : ret.chunks[i] # <<>>
     /\ Squeeze(args.text) = <<>> => ret.chunks = <<>>

C24_Witness ==
  /\ ret.fn = "chunkText"
  /\ args.text # <<>> /\ Squeeze(args.text) = <<>>

\* The ways to read topK as chunks at distinct positions of the list.
Positions(topK, chunks) ==
  { f \in [1..Len(topK) -> 1..Len(chunks)] :
      /\ \A i, j \in 1..Len(topK) : i # j => f[i] # f[j]
      /\ \A i \in 1..Len(topK) : topK[i] = chunks[f[i]] }

\* C25: scoreBM25 (k >= 0) returns at most min(k, N) chunks, each the
\* chunk at a distinct position of the list, and nothing for an empty list.
C25_AtMostKChunksOfTheList ==
  ret.fn = "scoreBM25"
  => /\ Len(ret.topK) <= args.k
     /\ Len(ret.topK) <= Len(args.chunks)
     /\ Positions(ret.topK, args.chunks) # {}

C25_Witness ==
  /\ ret.fn = "scoreBM25"
  /\ Len(args.chunks) > args.k /\ Len(ret.topK) = args.k /\ args.k >= 2

\* C26: the chunks scoreBM25 returns are in non-increasing order of score,
\* those of equal score in their order in the list, and no chunk left out
\* scores higher than a returned one; for a query without tokens the
\* result is the first k chunks of the list.
C26_SortedByScoreStable ==
  ret.fn = "scoreBM25"
  => LET sc == ret.scores
     IN  /\ \E f \in Positions(ret.topK, args.chunks) :
               /\ \A i, j \in 1..Len(ret.topK) :
                    i < j => \/ sc[f[i]].score > sc[f[j]].score
                             \/ sc[f[i]].score = sc[f[j]].score /\ f[i] < f[j]
               /\ \A i \in 1..Len(ret.topK) :
                    \A m \in 1..Len(args.chunks) :
                      (\A j \in 1..Len(ret.topK) : f[j] # m)
                        => sc[m].score <= sc[f[i]].score
         /\ tokenize(args.query) = <<>> => ret.topK = slice(args.chunks, args.k)

C26_Witness ==
  /\ ret.fn = "scoreBM25"
  /\ Len(ret.topK) = 2 /\ Len(args.chunks) = 3
  /\ ret.topK[1] = args.chunks[3] /\ ret.topK[2] = args.chunks[1]
  /\ LET sc == ret.scores
     IN  sc[1].score = sc[2].score /\ sc[3].score > sc[1].score

\* The tokens of text i of a list of texts.
TokensOf(texts, i) == tokenize(texts[i])

\* C27: a chunk in which a query token occurs several times, the token
\* occurring in no other chunk, is returned first (k >= 1).
C27_RepeatedTokenRanksFirst ==
  (ret.fn = "scoreBM25" /\ args.k >= 1)
  => \A i \in 1..Len(args.chunks) :
       (\E q \in 1..Len(tokenize(args.query)) :
          /\ Occurrences(TokensOf(args.chunks, i), tokenize(args.query)[q]) >= 3
          /\ \A j \in 1..Len(args.chunks) :
               j # i => Occurrences(TokensOf(args.chunks, j), tokenize(args.query)[q]) = 0)
       => (ret.topK # <<>> /\ ret.topK[1] = args.chunks[i])

\* The chunks of the list in which a token of the query occurs.
Matching ==
  { i \in 1..Len(args.chunks) :
      \E q \in 1..Len(tokenize(args.query)) :
        Occurrences(TokensOf(args.chunks, i), tokenize(args.query)[q]) > 0 }

\* The characters that break a line.
LineBreaks == {"\n", "\r"}

\* C28: the narrative of a success response has no line break, no two
\* white-space characters in a row, and no white space at its ends.
C28_NarrativeIsOneParagraph ==
  response.kind = "success"
  => LET h == response.revised_hpi
     IN  /\ \A i \in 1..Len(h) : h[i] \notin LineBreaks
         /\ \A i \in 1..(Len(h) - 1) : ~(h[i] \in WhiteSpace /\ h[i + 1] \in WhiteSpace)
         /\ h # <<>> => (h[1] \notin WhiteSpace /\ h[Len(h)] \notin WhiteSpace)

\* The texts of a success response that stripMarkdown has gone through.
ResponseTexts ==
  {response.revised_hpi, response.mapping_explanation}
    \cup UNION { { response.missing_criteria[i].mcg_clause,
                   response.missing_criteria[i].evidence_in_notes,
                   response.missing_criteria[i].required_documentation } :
                 i \in 1..Len(response.missing_criteria) }

\* C29: no asterisk and no backtick occurs in the narrative, in the
\* explanation, or in the clause, evidence and required-documentation text
\* of a gap entry of a success response.
C29_NoEmphasisOrFenceMarker ==
  response.kind = "success"
  => \A t \in ResponseTexts : \A i \in 1..Len(t) : t[i] \notin {"*", Backtick}

C29_Witness ==
  /\ response.kind = "success"
  /\ \E i \in 1..Len(pre.revised_hpi) : pre.revised_hpi[i] = "*"
  /\ Len(response.missing_criteria) > 0
  /\ \E i \in 1..Len(MappedCriteria) :
       \E j \in 1..Len(MappedCriteria[i].mcg_clause) :
         MappedCriteria[i].mcg_clause[j] = Backtick

\* C30: the text stripMarkdown returns has no line that begins with "#"
\* and no "##" anywhere.
C30_NoHeadingMarkerLeft ==
  ret.fn = "stripMarkdown"
  => /\ \A i \in 1..Len(ret.text) :
          ret.text[i] = "#" => ~(i = 1 \/ ret.text[i - 1] \in LineBreaks)
     /\ \A i \in 1..(Len(ret.text) - 1) : ~(ret.text[i] = "#" /\ ret.text[i + 1] = "#")

\* The self-audit call got a response with a non-success status.
AuditStatusFailed == call["audit"] = "headers" /\ ~Ok(httpStatus["audit"])

\* The text of the self-audit response was read and no JSON object was
\* parsed from it (extractJSON gave null, or a value that is not an object).
AuditUnparsed == audited.got /\ audited.value.kind # "object"

\* C31: when the self-audit call returns a non-success status, or a text
\* from which no JSON object is parsed, and the pre-audit narrative and
\* explanation are non-empty, the request returns the success response made
\* of the sanitized pre-audit narrative, gap list and explanation.
C31_AuditFailureFallsBack ==
  ( /\ AuditStatusFailed \/ AuditUnparsed
    /\ pre.revised_hpi # <<>>
    /\ pre.mapping_explanation # <<>> )
  => response = PreAuditSuccess

C31_Witness ==
  /\ AuditStatusFailed
  /\ Handled(httpStatus["audit"])
  /\ pre.revised_hpi # <<>>
  /\ pre.mapping_explanation # <<>>
  /\ Len(pre.missing_criteria) > 0
  /\ response = PreAuditSuccess

C31_UnparsedWitness ==
  /\ AuditUnparsed
  /\ pre.revised_hpi # <<>>
  /\ pre.mapping_explanation # <<>>
  /\ response = PreAuditSuccess

\* The self-audit response parsed to an object without a (non-empty)
\* mapping explanation.
AuditWithoutMapping ==
  audited.got /\ audited.value.kind = "object" /\ audited.value.mapping_explanation = <<>>

\* C32: when the self-audit response parses to an object that has no
\* (non-empty) mapping explanation, the narrative and the gap list of the
\* success response are the sanitized pre-audit narrative and gap list.
C32_AuditWithoutMappingDiscarded ==
  (response.kind = "success" /\ AuditWithoutMapping)
  => /\ response.revised_hpi = sanitizeHPI(pre.revised_hpi)
     /\ response.missing_criteria = sanitizeCriteria(pre.missing_criteria)

\* C33: every success response carries a non-empty narrative and a
\* non-empty explanation (the client's response-shape check accepts it).
C33_SuccessHasNarrativeAndExplanation ==
  response.kind = "success"
  => response.revised_hpi # <<>> /\ response.mapping_explanation # <<>>

\* C34: whenever a turn of the paragraph loop of chunkText appends the
\* paragraph because it keeps the buffer within maxLen, the buffer it
\* leaves, the blank-line joiner included, has at most maxLen characters.
C34_AppendKeepsBufferWithinMaxLen ==
  ret.fn = "chunkText"
  => \A k \in 1..Len(ret.turns) :
       ret.turns[k].branch = "append" => Len(ret.turns[k].current) <= args.maxLen

\* A blank line inside a text: two line feeds in a row.
HasParagraphBreak(t) == \E i \in 1..(Len(t) - 1) : t[i] = "\n" /\ t[i + 1] = "\n"

\* A sentence end inside a text: terminal punctuation followed by white space.
HasSentenceBoundary(t) ==
  \E i \in 1..(Len(t) - 1) : t[i] \in {".", "!", "?"} /\ t[i + 1] \in WhiteSpace

\* C35: a chunk chunkText returns that is longer than maxLen has no blank
\* line and no sentence end (terminal punctuation followed by white space)
\* inside it.
C35_OversizedChunkIsOneSentence ==
  ret.fn = "chunkText"
  => \A i \in 1..Len(ret.chunks) :
       Len(ret.chunks[i]) > args.maxLen
       => ~HasParagraphBreak(ret.chunks[i]) /\ ~HasSentenceBoundary(ret.chunks[i])

\* Turn j is the first turn after turn k that does not skip a blank paragraph.
NextTurn(k, j) ==
  /\ k < j
  /\ ret.turns[j].branch # "continue"
  /\ \A m \in (k + 1)..(j - 1) : ret.turns[m].branch = "continue"

\* C36: in chunkText with minLen <= maxLen, after a turn of the paragraph
\* loop has appended a paragraph under the 1.2 * maxLen allowance, the next
\* paragraph is not appended to that buffer: the buffer is pushed first.
C36_AllowanceUsedOncePerBuffer ==
  (ret.fn = "chunkText" /\ args.minLen <= args.maxLen)
  => \A k \in 1..Len(ret.turns), j \in 1..Len(ret.turns) :
       (ret.turns[k].branch = "allowance" /\ NextTurn(k, j))
       => ret.turns[j].branch \notin {"append", "allowance"}

C36_Witness ==
  /\ ret.fn = "chunkText" /\ args.minLen <= args.maxLen
  /\ \E k \in 1..Len(ret.turns), j \in 1..Len(ret.turns) :
       /\ ret.turns[k].branch = "allowance" /\ NextTurn(k, j)
       /\ k > 1 /\ ret.turns[k - 1].current # <<>>
       /\ ret.turns[j].branch = "flush"

\* The lines of a text.
LinesOf(t) == split(t, <<"\n">>)

\* The items of the text are separated by lines consisting of three dashes:
\* such a line occurs, and no other line holds a dash.
ThreeDashSeparated(t) ==
  /\ includes(t, SepLine)
  /\ \A n \in 1..Len(LinesOf(t)) :
       includes(LinesOf(t)[n], <<"-">>) => LinesOf(t)[n] = <<"-", "-", "-">>

\* The non-empty items of a text between its lines of three dashes.
ItemsOf(t) ==
  LET parts == split(t, SepLine)
      NonEmpty(p) == p # <<>>
  IN  SelectSeq(<<>> \o [n \in 1..Len(parts) |-> trim(parts[n])], NonEmpty)

\* C37: when the items of the explanation are separated by lines of three
\* dashes, the explanation sanitizeMapping returns is the same non-empty
\* items in the same order, with exactly one "---" line between two items
\* and none before the first or after the last.
C37_ItemsStaySeparated ==
  (ret.fn = "sanitizeMapping" /\ ThreeDashSeparated(args.text))
  => ret.text = join(ItemsOf(args.text), SepLine)

\* C38: the score scoreBM25 gives a chunk is a number that is never
\* negative, and it is zero exactly when no token of the query occurs in
\* the chunk.
C38_ScoreIsPositiveOnMatch ==
  ret.fn = "scoreBM25"
  => LET sc == ret.scores
     IN  \A i \in 1..Len(args.chunks) :
           /\ ~sc[i].nan
           /\ sc[i].score >= 0
           /\ sc[i].score = 0 <=> i \notin Matching

\* C39: when no run of handleGenerate is in progress, isProcessing is false
\* and no interval is left running; during a run, the only interval that
\* runs is the one that run has set.
C39_RunEndsWithTimerStopped ==
  /\ genPc = "idle" => (~isProcessing /\ intervals = {})
  /\ genPc # "idle" => intervals \subseteq {progressInterval}

====
